---- MODULE Spec2Model ----
(***************************************************************************)
(* A model of the 3dSAGER demo service (src/app.py, src/tasks.py): the     *)
(* two-tier result cache (process-local maps + Redis), the Celery job      *)
(* dispatch for feature calculation and BKAFI loading, and the building-   *)
(* identifier resolution done by the per-building endpoints.               *)
(*                                                                         *)
(* Identifiers are sequences of one-character strings, so that the regex   *)
(* search, split, lstrip and zfill of the code can be computed as the code *)
(* computes them.  The alphabet is letters, digits, "_" and "." ("." is a  *)
(* wildcard wherever the code uses an identifier as a regex pattern).      *)
(***************************************************************************)
EXTENDS Integers, Sequences, FiniteSets, TLC

VARIABLES
    redisUp,              \* environment: the Redis server answers
    redis_client,         \* app.py _redis_client: TRUE once a client is memoized
    redis,                \* the Redis keyspace: key -> Optional serialized payload
    features_cache,       \* app.py features_cache: file -> Optional feature map
    bkafi_cache,          \* app.py bkafi_cache: Optional flat prediction map
    bkafi_cache_by_file,  \* app.bkafi_cache_by_file: Optional nested document
    jobs,                 \* Celery jobs, by id (position): task, arg, status, result
    featureSource,        \* the feature artifact on disk (parquet / joblib / absent)
    resultsSource,        \* the prediction document on disk (Optional)
    citySource,           \* the CityJSON file on disk (Optional)
    conc,                 \* requests in progress, when handlers interleave
    resp,                 \* the response of the request handled last
    ops                   \* what that request did to the tiers, loader and queue

vars == <<redisUp, redis_client, redis, features_cache, bkafi_cache,
          bkafi_cache_by_file, jobs, featureSource, resultsSource, citySource, conc, resp, ops>>

-----------------------------------------------------------------------------
(* Optional values (Python None / a value).                                *)

None == [has |-> FALSE, val |-> <<>>]

Some(v) == [has |-> TRUE, val |-> v]

-----------------------------------------------------------------------------
(* String operations of the code, on sequences of characters.              *)

Digits == {"0", "1", "2", "3", "4", "5", "6", "7", "8", "9"}

\* t in s
Contains(s, t) ==
    \E i \in 0..(Len(s) - Len(t)) : SubSeq(s, i + 1, i + Len(t)) = t

\* re.search(p, s) for a pattern of literals and "."
RegexSearch(p, s) ==
    \E i \in 0..(Len(s) - Len(p)) :
        \A j \in 1..Len(p) : p[j] = "." \/ p[j] = s[i + j]

\* s.endswith(t)
EndsWith(s, t) ==
    /\ Len(t) <= Len(s)
    /\ SubSeq(s, Len(s) - Len(t) + 1, Len(s)) = t

\* s.lstrip('0')
RECURSIVE LStripZeros(_)
LStripZeros(s) ==
    IF s # <<>> /\ Head(s) = "0" THEN LStripZeros(Tail(s)) ELSE s

\* numeric_id.zfill(16): the width the resolver pads to
ZFillWidth == 16

RECURSIVE ZFill(_, _)
ZFill(s, w) == IF Len(s) >= w THEN s ELSE ZFill(<<"0">> \o s, w)

\* the {10,} of the pattern r'(\d{10,})'
MinDigitRun == 10

\* number of consecutive digits of s starting at position i
RECURSIVE DigitRunLen(_, _)
DigitRunLen(s, i) ==
    IF i <= Len(s) /\ s[i] \in Digits THEN 1 + DigitRunLen(s, i + 1) ELSE 0

\* re.search(r'(\d{10,})', s): Optional leftmost, greedy run of >= 10 digits
DigitRunSearch(s) ==
    LET starts == {i \in 1..Len(s) : DigitRunLen(s, i) >= MinDigitRun}
    IN  IF starts = {} THEN None
        ELSE LET i == CHOOSE k \in starts : \A m \in starts : k <= m
             IN  Some(SubSeq(s, i, i + DigitRunLen(s, i) - 1))

\* LastSegment that cuts at the first separator: s.split('_', 1)[-1]
AfterFirstSeparator(s) ==
    LET seps == {i \in 1..Len(s) : s[i] = "_"}
    IN  IF seps = {} THEN s
        ELSE LET i == CHOOSE k \in seps : \A m \in seps : k <= m
             IN  SubSeq(s, i + 1, Len(s))

\* s.split('_')[-1] if '_' in s else s
LastSegment(s) ==
    LET seps == {i \in 1..Len(s) : s[i] = "_"}
    IN  IF seps = {} THEN s
        ELSE LET i == CHOOSE k \in seps : \A m \in seps : m <= k
             IN  SubSeq(s, i + 1, Len(s))

\* NumericId that looks at the separator before the digit run
NumericIdSeparatorFirst(building_id) ==
    LET m == DigitRunSearch(LastSegment(building_id))
    IN  IF m.has THEN m.val ELSE LastSegment(building_id)

\* the inline "numeric_id" extraction of the per-building handlers
NumericId(building_id) ==
    LET m == DigitRunSearch(building_id)
    IN  IF m.has THEN m.val ELSE LastSegment(building_id)

-----------------------------------------------------------------------------
(* Python dicts keep insertion order, and the scans of the resolver depend *)
(* on it: a dict is a sequence of entries [k |-> key, v |-> value] with    *)
(* distinct keys.                                                          *)

DictKeys(d) == {d[i].k : i \in DOMAIN d}

DictIndex(d, key) == CHOOSE i \in DOMAIN d : d[i].k = key

\* d[key], for a key of d
DictGet(d, key) == d[DictIndex(d, key)].v

\* d[key] = value: an existing key keeps its position
DictSet(d, key, value) ==
    IF key \in DictKeys(d)
    THEN [d EXCEPT ![DictIndex(d, key)] = [k |-> key, v |-> value]]
    ELSE Append(d, [k |-> key, v |-> value])

\* the sequences that enumerate the finite set S (iteration orders of a set)
RECURSIVE Perms(_)
Perms(S) ==
    IF S = {} THEN {<<>>}
    ELSE UNION {{<<x>> \o p : p \in Perms(S \ {x})} : x \in S}

\* json.dumps / json.loads of a payload whose keys are strings and whose
\* values are plain numbers, strings and lists: the text carries the same
\* structure, and an entry of the keyspace is that text.
JsonDumps(payload) == [json |-> payload]

JsonLoads(raw) == raw.json

-----------------------------------------------------------------------------
(* Feature values.  A value read from an artifact is a Python number, a    *)
(* Python list, a numpy scalar (np.integer, np.floating) or an np.ndarray; *)
(* the kind and the payload are coded in one integer, kind * KindBase +    *)
(* payload, so that a plain number below KindBase is a Python number.      *)

KindBase == 100

Kinds == <<"number", "list", "np_scalar", "np_ndarray">>

KindOf(value) == Kinds[(value \div KindBase) + 1]

PayloadOf(value) == value % KindBase

Value(kind, payload) ==
    ((CHOOSE i \in DOMAIN Kinds : Kinds[i] = kind) - 1) * KindBase + payload

\* the legacy branch's conversion: float(value) for np.integer and
\* np.floating, value.tolist() for np.ndarray, the value itself otherwise
ToNative(value) ==
    IF KindOf(value) = "np_scalar" THEN Value("number", PayloadOf(value))
    ELSE IF KindOf(value) = "np_ndarray" THEN Value("list", PayloadOf(value))
    ELSE value

\* tasks._json_default, called by json.dumps for a value it cannot encode:
\* value.item() for np.integer and np.floating, value.tolist() for np.ndarray
json_default(value) ==
    IF KindOf(value) = "np_scalar" THEN Value("number", PayloadOf(value))
    ELSE IF KindOf(value) = "np_ndarray" THEN Value("list", PayloadOf(value))
    ELSE value

\* json.dumps encodes Python numbers and lists and raises TypeError for a
\* numpy scalar or array
JsonEncodable(value) == KindOf(value) \in {"number", "list"}

\* json.dumps(payload) of a feature map succeeds
FeatureMapEncodable(building_features) ==
    \A i \in DOMAIN building_features : \A j \in DOMAIN building_features[i].v :
        JsonEncodable(building_features[i].v[j].v)

\* json.dumps(payload, default=_json_default) of a feature map: the map with
\* every value json.dumps cannot encode replaced by _json_default(value)
WithJsonDefault(building_features) ==
    [i \in DOMAIN building_features |->
        [k |-> building_features[i].k,
         v |-> [j \in DOMAIN building_features[i].v |->
                   [k |-> building_features[i].v[j].k,
                    v |-> IF JsonEncodable(building_features[i].v[j].v)
                          THEN building_features[i].v[j].v
                          ELSE json_default(building_features[i].v[j].v)]]]]

-----------------------------------------------------------------------------
(* Artifact loaders.                                                       *)

\* build_features_from_parquet: rows (building_id, feature_name, value)
\* grouped by building_id with setdefault
RECURSIVE BuildFeaturesFromRows(_, _)
BuildFeaturesFromRows(rows, building_features) ==
    IF rows = <<>> THEN building_features
    ELSE LET row == Head(rows)
             old == IF row.building_id \in DictKeys(building_features)
                    THEN DictGet(building_features, row.building_id)
                    ELSE <<>>
         IN  BuildFeaturesFromRows(
                 Tail(rows),
                 DictSet(building_features, row.building_id,
                         DictSet(old, row.feature_name, row.value)))

build_features_from_parquet(rows) == BuildFeaturesFromRows(rows, <<>>)

\* the features of one building collected over the legacy property dicts
RECURSIVE JoblibFeaturesOf(_, _)
JoblibFeaturesOf(property_dicts, bid) ==
    IF property_dicts = <<>> THEN <<>>
    ELSE LET feature == Head(property_dicts)
             rest == JoblibFeaturesOf(Tail(property_dicts), bid)
         IN  IF bid \in DictKeys(feature.v.cands)
             THEN <<[k |-> feature.k,
                    v |-> ToNative(DictGet(feature.v.cands, bid))]>> \o rest
             ELSE rest

\* the legacy joblib branch: building ids are the keys of the FIRST feature's
\* 'cands', held in a Python set; the map is built in the set's iteration
\* order, which is any order.  The set of maps the branch can build.
TransposeJoblib(property_dicts) ==
    LET building_ids == IF property_dicts = <<>> THEN {}
                        ELSE DictKeys(property_dicts[1].v.cands)
    IN  {[i \in 1..Len(order) |->
             [k |-> order[i], v |-> JoblibFeaturesOf(property_dicts, order[i])]] :
         order \in Perms(building_ids)}

\* the feature maps a load of the feature artifact can produce
\* (parquet preferred over joblib; the caller tests kind = "absent" first)
\* scripts/convert_joblib_to_parquet.to_rows: one row for every feature and
\* every entry of its 'cands', in order, with the value converted
to_rows(property_dicts) ==
    LET RowsOf(feature) ==
            [i \in DOMAIN feature.v.cands |->
                [building_id |-> feature.v.cands[i].k,
                 feature_name |-> feature.k,
                 value |-> ToNative(feature.v.cands[i].v)]]
        RECURSIVE Concat(_)
        Concat(features) ==
            IF features = <<>> THEN <<>>
            ELSE RowsOf(Head(features)) \o Concat(Tail(features))
    IN  Concat(property_dicts)

LoadFeatureMaps(source) ==
    IF source.kind = "parquet" THEN {build_features_from_parquet(source.rows)}
    ELSE TransposeJoblib(source.property_dicts)

\* flattening of the nested prediction document: files in order, buildings
\* in order, flattened_cache[building_id] = building_data
\* FlattenBuildings that keeps the entry a building already has
\* (flattened_cache.setdefault)
RECURSIVE FlattenBuildingsKeepFirst(_, _)
FlattenBuildingsKeepFirst(file_buildings, flattened_cache) ==
    IF file_buildings = <<>> THEN flattened_cache
    ELSE FlattenBuildingsKeepFirst(Tail(file_buildings),
             IF Head(file_buildings).k \in DictKeys(flattened_cache)
             THEN flattened_cache
             ELSE Append(flattened_cache, Head(file_buildings)))

RECURSIVE FlattenBuildings(_, _)
FlattenBuildings(file_buildings, flattened_cache) ==
    IF file_buildings = <<>> THEN flattened_cache
    ELSE FlattenBuildings(Tail(file_buildings),
                          DictSet(flattened_cache, Head(file_buildings).k,
                                  Head(file_buildings).v))

RECURSIVE FlattenFiles(_, _)
FlattenFiles(results_dict, flattened_cache) ==
    IF results_dict = <<>> THEN flattened_cache
    ELSE FlattenFiles(Tail(results_dict),
                      FlattenBuildings(Head(results_dict).v, flattened_cache))

Flatten(results_dict) == FlattenFiles(results_dict, <<>>)

\* the (building_id, building_data) pairs in the order the flattening loop
\* visits them
RECURSIVE VisitedBuildings(_)
VisitedBuildings(results_dict) ==
    IF results_dict = <<>> THEN <<>>
    ELSE Head(results_dict).v \o VisitedBuildings(Tail(results_dict))

RECURSIVE SumPairs(_)
SumPairs(buildings) ==
    IF buildings = <<>> THEN 0
    ELSE Len(Head(buildings).v.possible_matches) + SumPairs(Tail(buildings))

-----------------------------------------------------------------------------
(* The resolver cascades of the per-building handlers.                     *)

\* index of the first entry of d whose key satisfies Test, 0 when none does
\* (a "for key in d: if ...: return" scan)
FirstMatch(d, Test(_)) ==
    LET hits == {i \in DOMAIN d : Test(d[i].k)}
    IN  IF hits = {} THEN 0 ELSE CHOOSE i \in hits : \A j \in hits : i <= j

\* the body of "for variant in numeric_id_variants", for one variant:
\* index of the entry it returns, 0 when it falls through to the next variant
VariantMatch(building_features, variant) ==
    IF variant \in DictKeys(building_features)
    THEN DictIndex(building_features, variant)
    ELSE FirstMatch(building_features,
             LAMBDA cached_id :
                 \/ cached_id = variant
                 \/ RegexSearch(variant, cached_id)
                 \/ RegexSearch(cached_id, variant)
                 \/ EndsWith(variant, cached_id)
                 \/ EndsWith(cached_id, variant))

NotResolved == [hit |-> FALSE, step |-> 0, key |-> <<>>, features |-> <<>>]

Resolved(d, i, n) == [hit |-> TRUE, step |-> n, key |-> d[i].k, features |-> d[i].v]

\* FeaturesCascade with the numeric-id lookup tried before the raw-id lookup
FeaturesCascadeNumericFirst(building_features, building_id) ==
    LET numeric_id == NumericId(building_id)
    IN  IF numeric_id \in DictKeys(building_features)
        THEN Resolved(building_features, DictIndex(building_features, numeric_id), 2)
        ELSE IF building_id \in DictKeys(building_features)
        THEN Resolved(building_features, DictIndex(building_features, building_id), 1)
        ELSE NotResolved

\* FeaturesCascade with the containment scan tried before the numeric-id
\* lookup
FeaturesCascadeScanFirst(building_features, building_id) ==
    LET numeric_id == NumericId(building_id)
        final == FirstMatch(building_features,
                     LAMBDA cached_id : \/ Contains(cached_id, numeric_id)
                                        \/ Contains(numeric_id, cached_id))
    IN  IF building_id \in DictKeys(building_features)
        THEN Resolved(building_features, DictIndex(building_features, building_id), 1)
        ELSE IF final # 0
        THEN Resolved(building_features, final, 5)
        ELSE IF numeric_id \in DictKeys(building_features)
        THEN Resolved(building_features, DictIndex(building_features, numeric_id), 2)
        ELSE NotResolved

\* the lookup of get_building_features in a feature map: which entry is
\* returned, and by which step (1 raw id, 2 numeric id, 3 exact variant,
\* 4 scan with a variant, 5 final containment scan)
FeaturesCascade(building_features, building_id) ==
    LET numeric_id == NumericId(building_id)
        numeric_id_variants == <<numeric_id, LStripZeros(numeric_id),
                                 ZFill(numeric_id, ZFillWidth)>>
        byVariant == [n \in 1..3 |->
                         VariantMatch(building_features, numeric_id_variants[n])]
        hitVariants == {n \in 1..3 : byVariant[n] # 0}
        final == FirstMatch(building_features,
                     LAMBDA cached_id : \/ Contains(cached_id, numeric_id)
                                        \/ Contains(numeric_id, cached_id))
    IN  IF building_id \in DictKeys(building_features)
        THEN Resolved(building_features, DictIndex(building_features, building_id), 1)
        ELSE IF numeric_id \in DictKeys(building_features)
        THEN Resolved(building_features, DictIndex(building_features, numeric_id), 2)
        ELSE IF hitVariants # {}
        THEN LET n == CHOOSE m \in hitVariants : \A q \in hitVariants : m <= q
                 v == numeric_id_variants[n]
             IN  Resolved(building_features, byVariant[n],
                          IF v \in DictKeys(building_features) THEN 3 ELSE 4)
        ELSE IF final # 0
        THEN Resolved(building_features, final, 5)
        ELSE NotResolved

\* the lookup of get_building_bkafi / get_building_matches in the flat
\* prediction map: .get(numeric_id), then the first key that equals,
\* contains or is contained in numeric_id
BkafiLookup(bkafi_cache_local, building_id) ==
    LET numeric_id == NumericId(building_id)
        scan == FirstMatch(bkafi_cache_local,
                    LAMBDA candidate_id : \/ candidate_id = numeric_id
                                          \/ Contains(candidate_id, numeric_id)
                                          \/ Contains(numeric_id, candidate_id))
    IN  IF numeric_id \in DictKeys(bkafi_cache_local)
        THEN Some([k |-> numeric_id, v |-> DictGet(bkafi_cache_local, numeric_id)])
        ELSE IF scan # 0 THEN Some(bkafi_cache_local[scan])
        ELSE None

-----------------------------------------------------------------------------
(* The program state a request handler works on, and the cache primitives. *)
(* A handler is one atomic step; a primitive returns the state after it,   *)
(* whether it raised, and its return value.                                *)

FeaturesKey(file_path) == "features:" \o file_path

BkafiFlatKey == "bkafi:flat"

BkafiByFileKey == "bkafi:by_file"

Cur == [redis_client |-> redis_client, redis |-> redis,
        features_cache |-> features_cache, bkafi_cache |-> bkafi_cache,
        bkafi_cache_by_file |-> bkafi_cache_by_file, jobs |-> jobs,
        ops |-> <<>>]

Log(st, event, key) == [st EXCEPT !.ops = Append(@, <<event, key>>)]

Returned(st, value) == [st |-> st, raised |-> FALSE, ret |-> value]

Raised(st) == [st |-> st, raised |-> TRUE, ret |-> None]

\* get_redis_client: the memoized client if there is one, else a client if
\* the ping succeeds (then memoized), else None
get_redis_client(st) ==
    Returned([st EXCEPT !.redis_client = @ \/ redisUp], st.redis_client \/ redisUp)

\* cache_get_json: None without a client; client.get raises when the server
\* does not answer; None for a missing key; else the parsed payload
cache_get_json(st, key) ==
    LET c == get_redis_client(st)
    IN  IF ~c.ret THEN Returned(Log(c.st, "dist_unreachable", key), None)
        ELSE IF ~redisUp THEN Raised(Log(c.st, "dist_error", key))
        ELSE IF ~c.st.redis[key].has THEN Returned(Log(c.st, "dist_miss", key), None)
        ELSE Returned(Log(c.st, "dist_hit", key), Some(JsonLoads(c.st.redis[key].val)))

\* cache_set_json: False without a client; client.set raises when the server
\* does not answer; else the key holds the serialized payload
cache_set_json(st, key, payload) ==
    LET c == get_redis_client(st)
    IN  IF ~c.ret THEN Returned(Log(c.st, "dist_set_skipped", key), FALSE)
        ELSE IF ~redisUp THEN Raised(Log(c.st, "dist_error", key))
        ELSE Returned(Log([c.st EXCEPT !.redis[key] = Some(JsonDumps(payload))],
                          "dist_set", key), TRUE)

\* cache_set_json of a feature map: json.dumps(payload) is evaluated before
\* client.set and raises TypeError when a value is a numpy scalar or array
cache_set_features(st, key, building_features) ==
    LET c == get_redis_client(st)
    IN  IF c.ret /\ ~FeatureMapEncodable(building_features)
        THEN Raised(Log(c.st, "dist_error", key))
        ELSE cache_set_json(st, key, building_features)

\* the local tier's answer, logged
LocalRead(st, key, value) ==
    Returned(Log(st, IF value.has THEN "local_hit" ELSE "local_miss", key), value)

\* get_features_cache: the distributed entry if there is one, else
\* features_cache.get(file_path)
get_features_cache(st, file_path) ==
    LET cached == cache_get_json(st, FeaturesKey(file_path))
    IN  IF cached.raised \/ cached.ret.has THEN cached
        ELSE LocalRead(cached.st, FeaturesKey(file_path),
                       cached.st.features_cache[file_path])

\* get_bkafi_cache: the distributed entry if there is one, else bkafi_cache
get_bkafi_cache(st) ==
    LET cached == cache_get_json(st, BkafiFlatKey)
    IN  IF cached.raised \/ cached.ret.has THEN cached
        ELSE LocalRead(cached.st, BkafiFlatKey, cached.st.bkafi_cache)

\* get_bkafi_by_file_cache: the distributed entry if there is one, else
\* getattr(app, 'bkafi_cache_by_file', None)
get_bkafi_by_file_cache(st) ==
    LET cached == cache_get_json(st, BkafiByFileKey)
    IN  IF cached.raised \/ cached.ret.has THEN cached
        ELSE LocalRead(cached.st, BkafiByFileKey, cached.st.bkafi_cache_by_file)

\* the in-process run of the feature loader followed by
\* features_cache[file_path] = building_features
LoadFeaturesInto(st, file_path, building_features) ==
    Log([Log(st, "load", FeaturesKey(file_path))
            EXCEPT !.features_cache[file_path] = Some(building_features)],
        "local_set", FeaturesKey(file_path))

\* job = task.delay(arg): a new job in the queue, its id is its position
Submit(st, task, arg) ==
    Log([st EXCEPT !.jobs = Append(@, [task |-> task, arg |-> arg,
                                       status |-> "PENDING", result |-> None])],
        "submit", task)

Resp(op, code, body) == [op |-> op, code |-> code, body |-> body]

Done(st, op, code, body) == [st |-> st, resp |-> Resp(op, code, body)]

-----------------------------------------------------------------------------
(* Request handlers: each returns the program state after the request and  *)
(* the response.  "loaded" is the map the feature loader builds if it runs.*)

\* POST /api/features/calculate
calculate_all_features(st0, file_path, loaded) ==
    LET cached == cache_get_json(st0, FeaturesKey(file_path))
        client == get_redis_client(cached.st)
        queued == Submit(client.st, "calculate_features", file_path)
        built == LoadFeaturesInto(client.st, file_path, loaded)
        stored == cache_set_features(built, FeaturesKey(file_path), loaded)
    IN  IF file_path = ""
        THEN Done(st0, "calculate", 400, [error |-> "No file path provided"])
        ELSE IF cached.raised
        THEN Done(cached.st, "calculate", 500, [error |-> "exception"])
        ELSE IF cached.ret.has
        THEN Done(Log([cached.st EXCEPT !.features_cache[file_path] = cached.ret],
                      "local_set", FeaturesKey(file_path)),
                  "calculate", 200,
                  [success |-> TRUE, message |-> "already cached",
                   building_count |-> Len(cached.ret.val)])
        ELSE IF client.ret
        THEN Done(queued, "calculate", 202,
                  [job_id |-> Len(queued.jobs), status |-> "queued"])
        ELSE IF featureSource.kind = "absent"
        THEN Done(client.st, "calculate", 404, [error |-> "Joblib file not found"])
        ELSE IF stored.raised
        THEN Done(stored.st, "calculate", 500, [error |-> "exception"])
        ELSE Done(stored.st, "calculate", 200,
                  [success |-> TRUE, message |-> "loaded",
                   building_count |-> Len(loaded)])

\* the 200 answers of get_building_features
FeaturesFound(building_id, r) ==
    [building_id |-> building_id, features |-> r.features, found |-> TRUE,
     step |-> r.step]

FeaturesNotFound(building_id) ==
    [building_id |-> building_id, features |-> <<>>, found |-> FALSE, step |-> 0]

\* GET /api/building/features/<building_id>?file=<file_path>
get_building_features(st0, building_id, file_path, loaded) ==
    LET cached == get_features_cache(st0, file_path)
        fromCache == IF ~cached.raised /\ cached.ret.has /\ cached.ret.val # <<>>
                     THEN FeaturesCascade(cached.ret.val, building_id)
                     ELSE NotResolved
        built == LoadFeaturesInto(cached.st, file_path, loaded)
        stored == cache_set_features(built, FeaturesKey(file_path), loaded)
        fromLoad == FeaturesCascade(loaded, building_id)
    IN  IF cached.raised
        THEN Done(cached.st, "features", 500, [error |-> "exception", features |-> <<>>])
        ELSE IF fromCache.hit
        THEN Done(cached.st, "features", 200, FeaturesFound(building_id, fromCache))
        ELSE IF featureSource.kind = "absent"
        THEN Done(cached.st, "features", 404,
                  [error |-> "Joblib file not found", features |-> <<>>])
        ELSE IF stored.raised
        THEN Done(stored.st, "features", 500, [error |-> "exception", features |-> <<>>])
        ELSE IF fromLoad.hit
        THEN Done(stored.st, "features", 200, FeaturesFound(building_id, fromLoad))
        ELSE Done(stored.st, "features", 200, FeaturesNotFound(building_id))

\* POST /api/bkafi/load
load_bkafi_results(st0) ==
    LET cached_bkafi == get_bkafi_cache(st0)
        cached_by_file == get_bkafi_by_file_cache(cached_bkafi.st)
        client == get_redis_client(cached_by_file.st)
        queued == Submit(client.st, "load_bkafi_results", "")
        results_dict == resultsSource.val
        flattened_cache == Flatten(results_dict)
        visited == VisitedBuildings(results_dict)
        local == Log([Log(client.st, "load", BkafiFlatKey) EXCEPT
                         !.bkafi_cache = Some(flattened_cache),
                         !.bkafi_cache_by_file =
                             IF @.has THEN @ ELSE Some(results_dict)],
                     "local_set", BkafiFlatKey)
        storedFlat == cache_set_json(local, BkafiFlatKey, flattened_cache)
        storedByFile == cache_set_json(storedFlat.st, BkafiByFileKey, results_dict)
    IN  IF cached_bkafi.raised
        THEN Done(cached_bkafi.st, "bkafi_load", 500, [error |-> "exception"])
        ELSE IF cached_by_file.raised
        THEN Done(cached_by_file.st, "bkafi_load", 500, [error |-> "exception"])
        ELSE IF cached_bkafi.ret.has /\ cached_by_file.ret.has
        THEN Done(Log([cached_by_file.st EXCEPT
                          !.bkafi_cache = cached_bkafi.ret,
                          !.bkafi_cache_by_file = cached_by_file.ret],
                      "local_set", BkafiFlatKey),
                  "bkafi_load", 200,
                  [success |-> TRUE, message |-> "already cached",
                   total_pairs |-> SumPairs(cached_bkafi.ret.val),
                   unique_candidates |-> Len(cached_bkafi.ret.val)])
        ELSE IF client.ret
        THEN Done(queued, "bkafi_load", 202,
                  [job_id |-> Len(queued.jobs), status |-> "queued"])
        ELSE IF ~resultsSource.has
        THEN Done(client.st, "bkafi_load", 404, [error |-> "file not found"])
        ELSE IF storedFlat.raised \/ storedByFile.raised
        THEN Done(storedByFile.st, "bkafi_load", 500, [error |-> "exception"])
        ELSE Done(storedByFile.st, "bkafi_load", 200,
                  [success |-> TRUE, message |-> "loaded",
                   total_pairs |-> SumPairs(visited),
                   unique_candidates |-> Len(visited)])

\* failed() that also holds of a job that is still running
failedOrStarted(status) == status \in {"FAILURE", "STARTED"}

\* AsyncResult.failed() / .successful()
failed(status) == status = "FAILURE"

successful(status) == status = "SUCCESS"

\* the payload of get_job_status for a job in the given state
JobStatusPayload(task_id, status, result) ==
    [task_id |-> task_id, status |-> status,
     error |-> IF failed(status) THEN Some(result) ELSE None,
     result |-> IF successful(status) THEN Some(result) ELSE None]

\* GET /api/jobs/<task_id>: an id nobody submitted reads as PENDING; the
\* state is read from the result backend, which is the Redis server
get_job_status(st0, task_id) ==
    LET known == task_id \in DOMAIN st0.jobs
        status == IF known THEN st0.jobs[task_id].status ELSE "PENDING"
        result == IF known THEN st0.jobs[task_id].result ELSE None
    IN  IF ~redisUp
        THEN Done(st0, "job", 500, [error |-> "exception"])
        ELSE Done(st0, "job", 200, JobStatusPayload(task_id, status, result))

\* GET /api/features/result?file_path=<file_path> (no try/except: an
\* exception is the framework's 500)
get_features_result(st0, file_path) ==
    LET cached == cache_get_json(st0, FeaturesKey(file_path))
    IN  IF file_path = ""
        THEN Done(st0, "features_result", 400, [error |-> "No file path provided"])
        ELSE IF cached.raised
        THEN Done(cached.st, "features_result", 500, [error |-> "exception"])
        ELSE IF ~cached.ret.has
        THEN Done(cached.st, "features_result", 404, [error |-> "not in cache"])
        ELSE Done(cached.st, "features_result", 200,
                  [file_path |-> file_path, features |-> cached.ret.val])

\* GET /api/bkafi/result
get_bkafi_result(st0) ==
    LET cached == cache_get_json(st0, BkafiFlatKey)
    IN  IF cached.raised
        THEN Done(cached.st, "bkafi_result", 500, [error |-> "exception"])
        ELSE IF ~cached.ret.has
        THEN Done(cached.st, "bkafi_result", 404, [error |-> "not in cache"])
        ELSE Done(cached.st, "bkafi_result", 200, [bkafi |-> cached.ret.val])

-----------------------------------------------------------------------------
(* Per-building pairs and matches.  A candidate match is                   *)
(* [index_id, confidence, predicted_label, true_label], the last three     *)
(* Optional; confidences are in tenths.                                    *)

\* CONFIDENCE_THRESHOLD = 0.5, in tenths
CONFIDENCE_THRESHOLD == 5

\* match.get('confidence', 0)
Confidence(match) == IF match.confidence.has THEN match.confidence.val ELSE 0

\* a variant that also predicts 1 at the threshold itself
PredictedLabelAtThreshold(match) ==
    IF match.predicted_label.has THEN match.predicted_label.val
    ELSE IF Confidence(match) >= CONFIDENCE_THRESHOLD THEN 1 ELSE 0

\* the explicit predicted_label, else 1 iff confidence > threshold
PredictedLabel(match) ==
    IF match.predicted_label.has THEN match.predicted_label.val
    ELSE IF Confidence(match) > CONFIDENCE_THRESHOLD THEN 1 ELSE 0

\* list.sort(key=confidence, reverse=True): stable, descending
RECURSIVE SortByConfidence(_, _)
SortByConfidence(items, sorted) ==
    IF items = <<>> THEN sorted
    ELSE LET x == Head(items)
             n == Cardinality({i \in DOMAIN sorted :
                                  sorted[i].confidence >= x.confidence})
         IN  SortByConfidence(Tail(items),
                 SubSeq(sorted, 1, n) \o <<x>> \o SubSeq(sorted, n + 1, Len(sorted)))

PairsOf(possible_matches, numeric_id) ==
    SortByConfidence(
        [i \in DOMAIN possible_matches |->
            [candidate_id |-> numeric_id,
             index_id |-> possible_matches[i].index_id,
             prediction |-> PredictedLabel(possible_matches[i]),
             true_label |-> possible_matches[i].true_label,
             confidence |-> Confidence(possible_matches[i])]],
        <<>>)

MatchesOf(possible_matches) ==
    SortByConfidence(
        [i \in DOMAIN SelectSeq(possible_matches, LAMBDA m : PredictedLabel(m) = 1) |->
            LET match == SelectSeq(possible_matches,
                                   LAMBDA m : PredictedLabel(m) = 1)[i]
            IN  [id |-> match.index_id,
                 building_id |-> match.index_id,
                 confidence |-> Confidence(match),
                 true_label |-> match.true_label]],
        <<>>)

\* the first part of get_building_bkafi and get_building_matches: the map the
\* lookup uses and the value of the variable building_id after it.  On a
\* miss the document is loaded inside the request, the flattening loop
\* reuses the name building_id for its loop variable, and the loaded map is
\* stored in the distributed tier only.
BkafiMapForRequest(st0, building_id) ==
    LET cached == get_bkafi_cache(st0)
        results_dict == resultsSource.val
        flattened_cache == Flatten(results_dict)
        visited == VisitedBuildings(results_dict)
        loadedSt == Log(cached.st, "load", BkafiFlatKey)
        storedFlat == cache_set_json(loadedSt, BkafiFlatKey, flattened_cache)
        storedByFile == cache_set_json(storedFlat.st, BkafiByFileKey, results_dict)
    IN  IF cached.raised
        THEN [st |-> cached.st, code |-> 500, map |-> <<>>, building_id |-> building_id]
        ELSE IF cached.ret.has
        THEN [st |-> cached.st, code |-> 200, map |-> cached.ret.val,
              building_id |-> building_id]
        ELSE IF ~resultsSource.has
        THEN [st |-> cached.st, code |-> 404, map |-> <<>>, building_id |-> building_id]
        ELSE IF storedFlat.raised \/ storedByFile.raised
        THEN [st |-> storedByFile.st, code |-> 500, map |-> <<>>,
              building_id |-> building_id]
        ELSE [st |-> storedByFile.st, code |-> 200, map |-> flattened_cache,
              building_id |-> IF visited = <<>> THEN building_id
                              ELSE visited[Len(visited)].k]

\* GET /api/building/bkafi/<building_id>
get_building_bkafi(st0, building_id) ==
    LET m == BkafiMapForRequest(st0, building_id)
        building_data == BkafiLookup(m.map, m.building_id)
    IN  IF m.code # 200
        THEN Done(m.st, "pairs", m.code, [error |-> "error", pairs |-> <<>>])
        ELSE IF ~building_data.has \/ building_data.val.v.possible_matches = <<>>
        THEN Done(m.st, "pairs", 200,
                  [building_id |-> m.building_id, pairs |-> <<>>,
                   key |-> IF building_data.has THEN Some(building_data.val.k) ELSE None])
        ELSE Done(m.st, "pairs", 200,
                  [building_id |-> m.building_id,
                   pairs |-> PairsOf(building_data.val.v.possible_matches,
                                     NumericId(m.building_id)),
                   key |-> Some(building_data.val.k)])

\* GET /api/building/matches/<building_id>
get_building_matches(st0, building_id) ==
    LET m == BkafiMapForRequest(st0, building_id)
        building_data == BkafiLookup(m.map, m.building_id)
    IN  IF m.code # 200
        THEN Done(m.st, "matches", m.code, [error |-> "error", matches |-> <<>>])
        ELSE IF ~building_data.has
        THEN Done(m.st, "matches", 200,
                  [building_id |-> m.building_id, matches |-> <<>>, key |-> None])
        ELSE Done(m.st, "matches", 200,
                  [building_id |-> m.building_id,
                   matches |-> MatchesOf(building_data.val.v.possible_matches),
                   key |-> Some(building_data.val.k)])

-----------------------------------------------------------------------------
(* The request body of the calculate endpoint, and the classifier summary. *)
(* A JSON body is Optional: None is the body null (request.get_json()      *)
(* returns None), else a dict.  The metrics file is absent, unparsable or  *)
(* a dict model name -> file name -> metrics.                              *)

\* data.get('file_path', '')
FilePathOf(data) ==
    IF "file_path" \in DictKeys(data) THEN DictGet(data, "file_path") ELSE ""

\* POST /api/features/calculate with the body data: data.get on None raises
\* inside the try, and the handler answers 500
calculate_all_features_request(st0, data, loaded) ==
    IF ~data.has
    THEN Done(st0, "calculate", 500, [error |-> "exception"])
    ELSE calculate_all_features(st0, FilePathOf(data.val), loaded)

NoMetrics == [kind |-> "absent"]

InvalidMetrics == [kind |-> "invalid"]

Metrics(metrics_data) == [kind |-> "json", metrics_data |-> metrics_data]

\* key == file_name or file_name in key or key in file_name: the file names
\* of the universe are not parts of one another
FileNameMatches(key, file_name) == key = file_name

\* the total_pairs of the summary: the pairs of the file in the by-file map
TotalPairs(bkafi_by_file, file_name) ==
    IF bkafi_by_file.has /\ bkafi_by_file.val # <<>>
       /\ file_name \in DictKeys(bkafi_by_file.val)
    THEN SumPairs(DictGet(bkafi_by_file.val, file_name))
    ELSE 0

\* GET /api/classifier/summary?file=<file_path>
get_classifier_summary(st0, file_path, metrics) ==
    LET model_metrics == DictGet(metrics.metrics_data, "XGBClassifier")
        matching == {i \in DOMAIN model_metrics :
                        FileNameMatches(model_metrics[i].k, file_path)}
        file_metric_data ==
            model_metrics[CHOOSE i \in matching : \A j \in matching : i <= j].v
        cached == get_bkafi_by_file_cache(st0)
        loadedSt == Log(cached.st, "load", BkafiByFileKey)
        stored == cache_set_json(loadedSt, BkafiByFileKey, resultsSource.val)
        loads == ~cached.raised /\ ~cached.ret.has /\ resultsSource.has
        bkafi_by_file == IF loads THEN resultsSource ELSE cached.ret
        after == IF loads THEN stored.st ELSE cached.st
    IN  IF file_path = ""
        THEN Done(st0, "summary", 400, [error |-> "No file path provided"])
        ELSE IF metrics.kind = "absent"
        THEN Done(st0, "summary", 404, [error |-> "Metrics summary file not found"])
        ELSE IF metrics.kind = "invalid"
        THEN Done(st0, "summary", 500, [error |-> "Invalid JSON format"])
        ELSE IF "XGBClassifier" \notin DictKeys(metrics.metrics_data)
        THEN Done(st0, "summary", 404, [error |-> "Model not found in metrics file"])
        ELSE IF matching = {}
        THEN Done(st0, "summary", 404, [error |-> "No metrics found for file"])
        ELSE IF cached.raised
        THEN Done(cached.st, "summary", 500, [error |-> "exception"])
        ELSE IF loads /\ stored.raised
        THEN Done(stored.st, "summary", 500, [error |-> "exception"])
        ELSE Done(after, "summary", 200,
                  [success |-> TRUE,
                   summary |-> [total_buildings |-> file_metric_data.candidates_in_file,
                                true_positive |-> file_metric_data.threshold_true_positives,
                                total_pairs |-> TotalPairs(bkafi_by_file, file_path)]])

-----------------------------------------------------------------------------
(* Single-building geometry.  A CityJSON document is                       *)
(* [CityObjects |-> dict, vertices |-> sequence]; a CityObject has a       *)
(* sequence of geometry records [type, boundaries]; the boundaries of a    *)
(* Solid are shells of faces of rings of vertex indices, those of the      *)
(* surface types are surfaces of rings of vertex indices.  Indices count   *)
(* from 0.                                                                 *)

Range(seq) == {seq[i] : i \in DOMAIN seq}

\* str(x) of an identifier, for use in a cache key
RECURSIVE IdString(_)
IdString(id) == IF id = <<>> THEN "" ELSE Head(id) \o IdString(Tail(id))

\* f"building:{file_path}:{building_id}"
BuildingKey(file_path, building_id) ==
    "building:" \o file_path \o ":" \o IdString(building_id)

\* the CityObjects scan of get_single_building: index of the first object
\* whose id is the raw id or the numeric id, or whose digit run is the
\* numeric id; 0 when there is none
FindCityObject(CityObjects, building_id) ==
    LET numeric_id == NumericId(building_id)
    IN  FirstMatch(CityObjects,
            LAMBDA obj_id :
                \/ obj_id = building_id
                \/ obj_id = numeric_id
                \/ /\ DigitRunSearch(obj_id).has
                   /\ DigitRunSearch(obj_id).val = numeric_id)

\* collect_vertex_indices: only Solid and MultiSurface records are read
collect_vertex_indices(geometry) ==
    IF geometry.type = "Solid"
    THEN UNION {UNION {UNION {Range(ring) : ring \in Range(face)} :
                          face \in Range(shell)} :
                   shell \in Range(geometry.boundaries)}
    ELSE IF geometry.type = "MultiSurface"
    THEN UNION {UNION {Range(ring) : ring \in Range(surface)} :
                   surface \in Range(geometry.boundaries)}
    ELSE {}

\* sorted(vertex_indices)
RECURSIVE SortedIndices(_)
SortedIndices(vertex_indices) ==
    IF vertex_indices = {} THEN <<>>
    ELSE LET least == CHOOSE x \in vertex_indices : \A y \in vertex_indices : x <= y
         IN  <<least>> \o SortedIndices(vertex_indices \ {least})

\* MapIndex that numbers the kept vertices from 1
MapIndexOneBased(sorted_indices, v_idx) ==
    IF v_idx \in Range(sorted_indices)
    THEN CHOOSE i \in DOMAIN sorted_indices : sorted_indices[i] = v_idx
    ELSE v_idx

\* index_mapping.get(v_idx, v_idx)
MapIndex(sorted_indices, v_idx) ==
    IF v_idx \in Range(sorted_indices)
    THEN (CHOOSE i \in DOMAIN sorted_indices : sorted_indices[i] = v_idx) - 1
    ELSE v_idx

\* remap_geometry: only Solid and MultiSurface records are rewritten
remap_geometry(geometry, sorted_indices) ==
    LET b == geometry.boundaries
    IN  IF geometry.type = "Solid"
        THEN [geometry EXCEPT !.boundaries =
                 [sh \in DOMAIN b |->
                     [fa \in DOMAIN b[sh] |->
                         [ri \in DOMAIN b[sh][fa] |->
                             [x \in DOMAIN b[sh][fa][ri] |->
                                 MapIndex(sorted_indices, b[sh][fa][ri][x])]]]]]
        ELSE IF geometry.type = "MultiSurface"
        THEN [geometry EXCEPT !.boundaries =
                 [su \in DOMAIN b |->
                     [ri \in DOMAIN b[su] |->
                         [x \in DOMAIN b[su][ri] |->
                             MapIndex(sorted_indices, b[su][ri][x])]]]]
        ELSE geometry

\* the minimal CityJSON of one object of the document
ExtractBuilding(city_json, target) ==
    LET target_building == city_json.CityObjects[target].v
        geometries == target_building.geometry
        vertex_indices == UNION {collect_vertex_indices(geometries[g]) :
                                    g \in DOMAIN geometries}
        sorted_indices == SortedIndices(vertex_indices)
        all_vertices == city_json.vertices
        kept == SelectSeq(sorted_indices, LAMBDA i : i < Len(all_vertices))
        new_vertices == [j \in DOMAIN kept |-> all_vertices[kept[j] + 1]]
        new_geometries == [g \in DOMAIN geometries |->
                              remap_geometry(geometries[g], sorted_indices)]
    IN  [CityObjects |-> <<[k |-> city_json.CityObjects[target].k,
                            v |-> [target_building EXCEPT
                                      !.geometry = new_geometries]]>>,
         vertices |-> new_vertices]

\* GET /api/building/single/<building_id>?file=<file_path>
get_single_building(st0, building_id, file_path) ==
    LET cache_key == BuildingKey(file_path, building_id)
        cached_building == cache_get_json(st0, cache_key)
        city_json == citySource.val
        target == FindCityObject(city_json.CityObjects, building_id)
        minimal_cityjson == ExtractBuilding(city_json, target)
        stored == cache_set_json(Log(cached_building.st, "load", cache_key),
                                 cache_key, minimal_cityjson)
    IN  IF file_path = ""
        THEN Done(st0, "single", 400, [error |-> "No file path provided"])
        ELSE IF cached_building.raised
        THEN Done(cached_building.st, "single", 500, [error |-> "exception"])
        ELSE IF cached_building.ret.has
        THEN Done(cached_building.st, "single", 200, cached_building.ret.val)
        ELSE IF ~citySource.has
        THEN Done(cached_building.st, "single", 404, [error |-> "File not found"])
        ELSE IF target = 0
        THEN Done(Log(cached_building.st, "load", cache_key), "single", 404,
                  [error |-> "Building not found in file"])
        ELSE IF stored.raised
        THEN Done(stored.st, "single", 500, [error |-> "exception"])
        ELSE Done(stored.st, "single", 200, minimal_cityjson)

-----------------------------------------------------------------------------
(* The status of all buildings.                                            *)

\* the status of one map entry from all its pairs: true_match before
\* false_positive before no_match; "none" for an entry without pairs
EntryStatus(possible_matches) ==
    LET has_true_match ==
            \E i \in DOMAIN possible_matches :
                /\ PredictedLabel(possible_matches[i]) = 1
                /\ possible_matches[i].true_label = Some(1)
        has_false_positive ==
            \E i \in DOMAIN possible_matches :
                /\ PredictedLabel(possible_matches[i]) = 1
                /\ possible_matches[i].true_label = Some(0)
    IN  IF has_true_match THEN "true_match"
        ELSE IF has_false_positive THEN "false_positive"
        ELSE IF possible_matches # <<>> THEN "no_match"
        ELSE "none"

\* the ids an entry of the prediction map is stored under: its key and, if
\* the key has a run of 10 digits, that run
StatusIds(candidate_id) ==
    {candidate_id} \cup
        (IF DigitRunSearch(candidate_id).has
         THEN {DigitRunSearch(candidate_id).val} ELSE {})

\* the loop that fills match_status, entry by entry: a later entry
\* overwrites what an earlier one stored under the same id
RECURSIVE MatchStatusLoop(_, _)
MatchStatusLoop(entries, match_status) ==
    IF entries = <<>> THEN match_status
    ELSE LET status == EntryStatus(Head(entries).v.possible_matches)
             ids == StatusIds(Head(entries).k)
         IN  MatchStatusLoop(Tail(entries),
                 IF status = "none" THEN match_status
                 ELSE [id \in DOMAIN match_status \cup ids |->
                          IF id \in ids THEN status ELSE match_status[id]])

\* GET /api/buildings/status?file=<file_path>
get_all_buildings_status(st0, file_path) ==
    LET features_data == get_features_cache(st0, file_path)
        bkafi_data == get_bkafi_cache(features_data.st)
        has_features == IF features_data.ret.has
                        THEN DictKeys(features_data.ret.val) ELSE {}
        entries == IF bkafi_data.ret.has THEN bkafi_data.ret.val ELSE <<>>
        has_pairs == UNION {StatusIds(entries[i].k) : i \in DOMAIN entries}
        match_status == MatchStatusLoop(entries, <<>>)
        all_building_ids == has_features \cup has_pairs \cup DOMAIN match_status
        result == [building_id \in all_building_ids |->
                      [has_features |-> building_id \in has_features,
                       has_pairs |-> building_id \in has_pairs,
                       match_status |-> IF building_id \in DOMAIN match_status
                                        THEN match_status[building_id]
                                        ELSE "none"]]
    IN  IF file_path = ""
        THEN Done(st0, "status", 400, [error |-> "No file path provided"])
        ELSE IF features_data.raised
        THEN Done(features_data.st, "status", 500, [error |-> "exception"])
        ELSE IF bkafi_data.raised
        THEN Done(bkafi_data.st, "status", 500, [error |-> "exception"])
        ELSE Done(bkafi_data.st, "status", 200,
                  [success |-> TRUE, buildings |-> result,
                   total |-> Cardinality(all_building_ids)])

-----------------------------------------------------------------------------
(* The Celery tasks of src/tasks.py, run by a worker process.              *)

\* calculate_features that reports success without storing the map
calculate_features_bare_key(job, keyspace, loaded) ==
    IF featureSource.kind = "absent"
    THEN [job |-> [job EXCEPT !.status = "FAILURE",
                              !.result = [error |-> "FileNotFoundError"]],
          redis |-> keyspace]
    ELSE [job |-> [job EXCEPT !.status = "SUCCESS",
                              !.result = [cache_key |-> job.arg,
                                          building_count |-> Len(loaded)]],
          redis |-> keyspace]

\* tasks.calculate_features: the job after the run and the keyspace after it
calculate_features(job, keyspace, loaded) ==
    IF featureSource.kind = "absent"
    THEN [job |-> [job EXCEPT !.status = "FAILURE",
                              !.result = [error |-> "FileNotFoundError"]],
          redis |-> keyspace]
    ELSE [job |-> [job EXCEPT !.status = "SUCCESS",
                              !.result = [cache_key |-> FeaturesKey(job.arg),
                                          building_count |-> Len(loaded)]],
          redis |-> [keyspace EXCEPT ![FeaturesKey(job.arg)] =
                                 Some(JsonDumps(WithJsonDefault(loaded)))]]

\* tasks.load_bkafi_results
load_bkafi_task(job, keyspace) ==
    IF ~resultsSource.has
    THEN [job |-> [job EXCEPT !.status = "FAILURE",
                              !.result = [error |-> "FileNotFoundError"]],
          redis |-> keyspace]
    ELSE LET results_dict == resultsSource.val
             visited == VisitedBuildings(results_dict)
         IN  [job |-> [job EXCEPT !.status = "SUCCESS",
                                  !.result = [cache_key_flat |-> BkafiFlatKey,
                                              cache_key_by_file |-> BkafiByFileKey,
                                              total_pairs |-> SumPairs(visited),
                                              unique_candidates |-> Len(visited)]],
              redis |-> [keyspace EXCEPT
                            ![BkafiFlatKey] = Some(JsonDumps(Flatten(results_dict))),
                            ![BkafiByFileKey] = Some(JsonDumps(results_dict))]]

-----------------------------------------------------------------------------
(* Identifiers, artifacts and inputs the model ranges over.                *)

Run16 == <<"0", "5", "1", "8", "1", "0", "0", "0", "0", "0",
           "2", "7", "1", "7", "8", "3">>

IdRun == Run16                                        \* "0518100000271783"

IdBag == <<"b", "a", "g", "_">> \o Run16              \* "bag_0518100000271783"

IdNL == <<"N", "L", ".", "P", "a", "n", "d", ".">> \o Run16

IdStripped == Tail(Run16)                             \* "518100000271783"

Id123 == <<"1", "2", "3">>

IdB123 == <<"b", "_", "1", "2", "3">>

Id0123 == <<"0", "1", "2", "3">>

IdPad123 == ZFill(Id123, ZFillWidth)                  \* "0000000000000123"

Id12 == <<"1", "2">>

Id77 == <<"7", "7">>

IdZeros == <<"0", "0", "0">>

IdDot == <<"1", ".", "3">>

IdList == <<IdRun, IdBag, IdNL, IdStripped, Id123, IdB123, Id0123, IdPad123,
            Id12, Id77, IdZeros, IdDot>>

\* a value that tells the entries of different buildings apart
IdValue(id) == CHOOSE i \in DOMAIN IdList : IdList[i] = id

Match(index_id, confidence, predicted_label, true_label) ==
    [index_id |-> index_id, confidence |-> confidence,
     predicted_label |-> predicted_label, true_label |-> true_label]

Absent == [kind |-> "absent"]

Parquet(rows) == [kind |-> "parquet", rows |-> rows]

Joblib(property_dicts) == [kind |-> "joblib", property_dicts |-> property_dicts]

Row(building_id, feature_name, value) ==
    [building_id |-> building_id, feature_name |-> feature_name, value |-> value]

\* feature artifacts of the cache and job protocol: a table with two
\* buildings, an empty table, a legacy nested document (whose second feature
\* has a building the first lacks), no artifact
ParquetTwo ==
    Parquet(<<Row(IdRun, "height", 1), Row(Id123, "height", 3),
              Row(IdRun, "width", 2)>>)

JoblibTwo ==
    Joblib(<<[k |-> "height",
              v |-> [cands |-> <<[k |-> IdRun, v |-> 1]>>]],
             [k |-> "width",
              v |-> [cands |-> <<[k |-> IdRun, v |-> 2], [k |-> Id123, v |-> 3]>>]]>>)

FeatureSources == {ParquetTwo, Parquet(<<>>), JoblibTwo, Absent}

\* prediction documents of the protocol: none, and one of two files that
\* share a building id and hold both a raw and a prefixed id
ResultsDoc ==
    <<[k |-> "tile1.json",
       v |-> <<[k |-> IdRun,
                v |-> [possible_matches |->
                          <<Match("999", Some(9), None, Some(1))>>]]>>],
      [k |-> "tile2.json",
       v |-> <<[k |-> IdRun,
                v |-> [possible_matches |->
                          <<Match("888", Some(4), None, Some(0)),
                            Match("777", Some(7), Some(1), Some(0))>>]],
               [k |-> IdBag,
                v |-> [possible_matches |->
                          <<Match("666", Some(8), None, None)>>]]>>]>>

ResultSources == {None, Some(ResultsDoc)}

\* what is on disk: a feature artifact (or none) without a prediction
\* document, or the prediction document without a feature artifact
Deployments ==
    (FeatureSources \X {None}) \cup ({Absent} \X {Some(ResultsDoc)})

Files == {"a.json"}

RequestIds == {IdBag, Id123, Id77}

\* number of jobs a behaviour may submit
MaxJobs == 2

\* the identifiers single-building geometry is requested for
GeometryIds == {IdBag, IdRun, Id77}

\* the identifiers of the comparison of identifiers
CompareIds == {IdRun, IdBag, IdNL, Id123, IdB123, Id77}

RedisKeys ==
    {FeaturesKey(f) : f \in Files} \cup {BkafiFlatKey, BkafiByFileKey}
        \cup {BuildingKey(f, id) : f \in Files, id \in GeometryIds \cup CompareIds}

-----------------------------------------------------------------------------
(* The state machine.                                                      *)

\* no request is in progress: every handler runs as one step
NoThreads == <<>>

\* what a request asked for
Request(building_id, file_path) == [building_id |-> building_id, file_path |-> file_path]

NoRequest == Request(<<>>, "")

InitProgram ==
    /\ citySource = None
    /\ conc = NoThreads
    /\ redis_client = FALSE
    /\ redis = [key \in RedisKeys |-> None]
    /\ features_cache = [f \in Files |-> None]
    /\ bkafi_cache = None
    /\ bkafi_cache_by_file = None
    /\ jobs = <<>>
    /\ resp = [request |-> NoRequest, op |-> "none", code |-> 0, body |-> [none |-> TRUE]]
    /\ ops = <<>>

Init ==
    /\ redisUp \in BOOLEAN
    /\ \E d \in Deployments : featureSource = d[1] /\ resultsSource = d[2]
    /\ InitProgram

\* the maps a run of the feature loader can build now
LoadChoices ==
    IF featureSource.kind = "absent" THEN {<<>>} ELSE LoadFeatureMaps(featureSource)

\* the step of a handler that, for request req, ends in state r.st with
\* response r.resp
Handle(req, r) ==
    /\ Len(r.st.jobs) <= MaxJobs
    /\ redis_client' = r.st.redis_client
    /\ redis' = r.st.redis
    /\ features_cache' = r.st.features_cache
    /\ bkafi_cache' = r.st.bkafi_cache
    /\ bkafi_cache_by_file' = r.st.bkafi_cache_by_file
    /\ jobs' = r.st.jobs
    /\ ops' = r.st.ops
    /\ resp' = [request |-> req, op |-> r.resp.op, code |-> r.resp.code,
                body |-> r.resp.body]
    /\ UNCHANGED <<redisUp, featureSource, resultsSource, citySource, conc>>

CalculateAllFeatures(files) ==
    \E file_path \in files, loaded \in LoadChoices :
        Handle(Request(<<>>, file_path), calculate_all_features(Cur, file_path, loaded))

GetBuildingFeatures(ids, files) ==
    \E building_id \in ids, file_path \in files, loaded \in LoadChoices :
        Handle(Request(building_id, file_path), get_building_features(Cur, building_id, file_path, loaded))

LoadBkafiResults == Handle(NoRequest, load_bkafi_results(Cur))

GetJobStatus == \E task_id \in 1..MaxJobs : Handle(NoRequest, get_job_status(Cur, task_id))

GetFeaturesResult(files) ==
    \E file_path \in files : Handle(Request(<<>>, file_path), get_features_result(Cur, file_path))

GetBkafiResult == Handle(NoRequest, get_bkafi_result(Cur))

GetBuildingBkafi(ids) ==
    \E building_id \in ids : Handle(Request(building_id, ""), get_building_bkafi(Cur, building_id))

GetSingleBuilding(ids, files) ==
    \E building_id \in ids, file_path \in files :
        Handle(Request(building_id, file_path),
               get_single_building(Cur, building_id, file_path))

GetAllBuildingsStatus(files) ==
    \E file_path \in files :
        Handle(Request(<<>>, file_path), get_all_buildings_status(Cur, file_path))

PostCalculateFeatures(bodies) ==
    \E data \in bodies, loaded \in LoadChoices :
        Handle(Request(<<>>, IF data.has THEN FilePathOf(data.val) ELSE ""),
               calculate_all_features_request(Cur, data, loaded))

GetClassifierSummary(files, metricsFiles) ==
    \E file_path \in files, metrics \in metricsFiles :
        Handle(Request(<<>>, file_path), get_classifier_summary(Cur, file_path, metrics))

GetBuildingMatches(ids) ==
    \E building_id \in ids : Handle(Request(building_id, ""), get_building_matches(Cur, building_id))

\* a worker takes a queued job (task_track_started: the state is recorded)
WorkerStart ==
    \E j \in DOMAIN jobs :
        /\ redisUp
        /\ jobs[j].status = "PENDING"
        /\ jobs' = [jobs EXCEPT ![j].status = "STARTED"]
        /\ UNCHANGED <<redisUp, redis_client, redis, features_cache, bkafi_cache,
                       bkafi_cache_by_file, featureSource, resultsSource, citySource, conc, resp, ops>>

\* the worker runs the task body and records the outcome
WorkerRun ==
    \E j \in DOMAIN jobs, loaded \in LoadChoices :
        /\ redisUp
        /\ jobs[j].status = "STARTED"
        /\ LET out == IF jobs[j].task = "calculate_features"
                      THEN calculate_features(jobs[j], redis, loaded)
                      ELSE load_bkafi_task(jobs[j], redis)
           IN  /\ jobs' = [jobs EXCEPT ![j] = out.job]
               /\ redis' = out.redis
        /\ UNCHANGED <<redisUp, redis_client, features_cache, bkafi_cache,
                       bkafi_cache_by_file, featureSource, resultsSource, citySource, conc, resp, ops>>

\* the environment: the server stops answering, answers again, a key's TTL
\* runs out
RedisDown ==
    /\ redisUp
    /\ redisUp' = FALSE
    /\ UNCHANGED <<redis_client, redis, features_cache, bkafi_cache,
                   bkafi_cache_by_file, jobs, featureSource, resultsSource, citySource, conc, resp, ops>>

RedisBack ==
    /\ ~redisUp
    /\ redisUp' = TRUE
    /\ UNCHANGED <<redis_client, redis, features_cache, bkafi_cache,
                   bkafi_cache_by_file, jobs, featureSource, resultsSource, citySource, conc, resp, ops>>

Expire ==
    \E key \in RedisKeys :
        /\ redis[key].has
        /\ redis' = [redis EXCEPT ![key] = None]
        /\ UNCHANGED <<redisUp, redis_client, features_cache, bkafi_cache,
                       bkafi_cache_by_file, jobs, featureSource, resultsSource, citySource, conc,
                       resp, ops>>

Next ==
    \/ CalculateAllFeatures(Files \cup {""})
    \/ GetBuildingFeatures(RequestIds, Files)
    \/ LoadBkafiResults
    \/ GetJobStatus
    \/ GetFeaturesResult(Files \cup {""})
    \/ GetBkafiResult
    \/ GetBuildingBkafi(RequestIds)
    \/ GetBuildingMatches(RequestIds)
    \/ WorkerStart
    \/ WorkerRun
    \/ RedisDown
    \/ RedisBack
    \/ Expire

Spec == Init /\ [][Next]_vars

\* the worker is fair: it takes a queued job, and finishes a started one,
\* if the broker is reachable again and again
SpecFair == Spec /\ SF_vars(WorkerStart) /\ SF_vars(WorkerRun)

-----------------------------------------------------------------------------
(* The resolver over many maps: one artifact whose keys are any sequence   *)
(* of at most MaxKeys distinct identifiers, requests for every identifier, *)
(* served cold (loaded inside the request) and from the cache.             *)

\* the identifiers requested, and the identifiers an artifact is keyed by
ResolverIds == {IdBag, IdRun, IdStripped, Id123, IdB123, Id12, Id77, IdDot}

ResolverKeys == {IdRun, IdBag, IdNL, IdStripped, Id123, IdB123, IdPad123, IdDot}

\* number of keys of an artifact of the resolver's universe
MaxKeys == 2

KeySeqs ==
    {ks \in UNION {[1..n -> ResolverKeys] : n \in 0..MaxKeys} :
        \A i, j \in DOMAIN ks : ks[i] = ks[j] => i = j}

ResolverFeatureSource(ks) ==
    Parquet([i \in DOMAIN ks |-> Row(ks[i], "height", IdValue(ks[i]))])

ResolverResults(ks) ==
    Some(<<[k |-> "tile1.json",
            v |-> [i \in DOMAIN ks |->
                      [k |-> ks[i],
                       v |-> [possible_matches |->
                                 <<Match(ks[i], Some(9), None, Some(1))>>]]]]>>)

InitResolver ==
    /\ redisUp \in BOOLEAN
    /\ \E ks \in KeySeqs :
          \/ featureSource = ResolverFeatureSource(ks) /\ resultsSource = None
          \/ featureSource = Absent /\ resultsSource = ResolverResults(ks)
    /\ InitProgram

NextResolver ==
    \/ GetBuildingFeatures(ResolverIds, Files)
    \/ GetBuildingBkafi(ResolverIds)
    \/ GetBuildingMatches(ResolverIds)

SpecResolver == InitResolver /\ [][NextResolver]_vars

-----------------------------------------------------------------------------
(* Single-building geometry over many documents: one or two CityObjects,   *)
(* the requested one with at most MaxGeoms geometry records of the three   *)
(* types, over four vertices; the server may stop answering and come back. *)

\* number of geometry records of a CityObject
MaxGeoms == 2

Vertices == <<"v0", "v1", "v2", "v3">>

Rings == {<<1, 3>>, <<3, 2, 3>>}

GeometryTypes == {"Solid", "MultiSurface", "CompositeSurface"}

\* a geometry record of the type whose boundaries use the ring
Geometry(type, ring) ==
    [type |-> type,
     boundaries |-> IF type = "Solid" THEN << << <<ring>>, <<<<2, 3>>>> >> >>
                    ELSE << <<ring>> >>]

GeometryLists ==
    UNION {[1..n -> {Geometry(t, r) : t \in GeometryTypes, r \in Rings}] :
              n \in 0..MaxGeoms}

CityObject(obj_id, geometries) ==
    [k |-> obj_id, v |-> [type |-> "Building", geometry |-> geometries]]

CityDocs ==
    {[CityObjects |-> <<CityObject(obj_id, gl)>>, vertices |-> Vertices] :
        obj_id \in {IdRun, IdNL}, gl \in GeometryLists}
    \cup {[CityObjects |-> <<CityObject(IdNL, <<Geometry("Solid", <<0, 1>>)>>),
                             CityObject(IdBag, gl)>>,
           vertices |-> Vertices] : gl \in GeometryLists}

InitGeometry ==
    /\ redisUp \in BOOLEAN
    /\ featureSource = Absent
    /\ resultsSource = None
    /\ citySource \in {None} \cup {Some(doc) : doc \in CityDocs}
    /\ conc = NoThreads
    /\ redis_client = FALSE
    /\ redis = [key \in RedisKeys |-> None]
    /\ features_cache = [f \in Files |-> None]
    /\ bkafi_cache = None
    /\ bkafi_cache_by_file = None
    /\ jobs = <<>>
    /\ resp = [request |-> NoRequest, op |-> "none", code |-> 0, body |-> [none |-> TRUE]]
    /\ ops = <<>>

NextGeometry ==
    \/ GetSingleBuilding(GeometryIds, Files \cup {""})
    \/ RedisDown
    \/ RedisBack

SpecGeometry == InitGeometry /\ [][NextGeometry]_vars

-----------------------------------------------------------------------------
(* The status of all buildings over many prediction maps: one or two keys  *)
(* that share a numeric id or not, each with pairs of one of the kinds     *)
(* predicted-and-true, predicted-and-false, not predicted, both, none.     *)

PairLists ==
    {<<Match("999", Some(9), None, Some(1))>>,
     <<Match("888", Some(9), None, Some(0))>>,
     <<Match("777", Some(4), None, Some(1))>>,
     <<Match("888", Some(4), Some(1), Some(0)), Match("999", Some(3), Some(1), Some(1))>>,
     <<>>}

StatusKeys == {IdBag, IdRun, Id123}

\* number of keys of a prediction map of the status universe
MaxStatusKeys == 2

StatusDocs ==
    {<<[k |-> "tile1.json",
        v |-> [i \in DOMAIN ks |->
                  [k |-> ks[i], v |-> [possible_matches |-> pl[i]]]]]>> :
        <<ks, pl>> \in UNION {{ks \in [1..n -> StatusKeys] :
                                  \A i, j \in 1..n : ks[i] = ks[j] => i = j}
                              \X [1..n -> PairLists] : n \in 1..MaxStatusKeys}}

InitStatus ==
    /\ redisUp \in BOOLEAN
    /\ \/ /\ featureSource = Absent
          /\ resultsSource \in {None} \cup {Some(doc) : doc \in StatusDocs}
       \/ /\ featureSource = ParquetTwo
          /\ resultsSource \in {None, Some(ResultsDoc)}
    /\ InitProgram

NextStatus ==
    \/ GetAllBuildingsStatus(Files \cup {""})
    \/ LoadBkafiResults
    \/ GetBuildingFeatures({IdRun}, Files)
    \/ RedisDown
    \/ RedisBack

SpecStatus == InitStatus /\ [][NextStatus]_vars

-----------------------------------------------------------------------------
(* The inline normalization applied to identifiers of every shape: a       *)
(* prefix, a run of digits, a middle part, a second run of digits and a    *)
(* suffix.  The step records normalize(id) and normalize(normalize(id)).   *)

\* longest run of digits in an identifier
MaxRunLen == 11

RunLens == {0, 1} \cup ((MinDigitRun - 1)..MaxRunLen)

Run(n, d) == [i \in 1..n |-> d]

IdPrefixes == {<<>>, <<"a">>, <<"a", "_">>, <<"_", "b", "_">>}

IdMiddles == {<<>>, <<"_">>, <<".">>, <<"a">>}

IdSuffixes == {<<>>, <<"_">>, <<"_", "x">>, <<"x">>}

NormalizeIds ==
    {p \o Run(a, "1") \o m \o Run(b, "2") \o x :
        p \in IdPrefixes, a \in RunLens, m \in IdMiddles, b \in RunLens,
        x \in IdSuffixes} \ {<<>>}

\* the identifier to normalize is the pending request
InitNormalize ==
    /\ redisUp = FALSE
    /\ citySource = None
    /\ conc = NoThreads
    /\ featureSource = Absent
    /\ resultsSource = None
    /\ redis_client = FALSE
    /\ redis = [key \in RedisKeys |-> None]
    /\ features_cache = [f \in Files |-> None]
    /\ bkafi_cache = None
    /\ bkafi_cache_by_file = None
    /\ jobs = <<>>
    /\ ops = <<>>
    /\ \E building_id \in NormalizeIds :
          resp = [request |-> Request(building_id, ""), op |-> "none", code |-> 0,
                  body |-> [none |-> TRUE]]

Normalize ==
    LET building_id == resp.request.building_id
    IN  /\ resp.op = "none"
        /\ resp' = [request |-> resp.request, op |-> "normalize", code |-> 200,
                    body |-> [numeric_id |-> NumericId(building_id),
                              again |-> NumericId(NumericId(building_id))]]
        /\ ops' = <<>>
        /\ UNCHANGED <<redisUp, redis_client, redis, features_cache, bkafi_cache,
                       bkafi_cache_by_file, jobs, featureSource, resultsSource, citySource, conc>>

NextNormalize == Normalize

SpecNormalize == InitNormalize /\ [][NextNormalize]_vars

-----------------------------------------------------------------------------
(* The matches of one building over many candidate lists: the building     *)
(* has at most MaxMatches candidates, each with a confidence below, at or  *)
(* above the threshold or none, an explicit predicted label or none, and a *)
(* true label or none; a second building shares its numeric id.            *)

\* number of candidates of the building
MaxMatches == 2

IndexIds == <<"777", "888", "999">>

MatchVariants(index_id) ==
    {Match(index_id, confidence, predicted_label, true_label) :
        confidence \in {None, Some(CONFIDENCE_THRESHOLD), Some(CONFIDENCE_THRESHOLD + 1)},
        predicted_label \in {None, Some(0), Some(1)},
        true_label \in {None, Some(1)}}

MatchLists ==
    UNION {{ms \in [1..n -> UNION {MatchVariants(IndexIds[i]) : i \in 1..n}] :
               \A i \in 1..n : ms[i].index_id = IndexIds[i]} : n \in 0..MaxMatches}

MatchesDoc(possible_matches) ==
    <<[k |-> "tile1.json",
       v |-> <<[k |-> IdRun, v |-> [possible_matches |-> possible_matches]],
               [k |-> Id123,
                v |-> [possible_matches |->
                          <<Match("666", Some(8), None, None)>>]]>>]>>

MatchIds == {IdRun, IdBag, Id77}

InitMatches ==
    /\ redisUp \in BOOLEAN
    /\ featureSource = Absent
    /\ \E ms \in MatchLists : resultsSource = Some(MatchesDoc(ms))
    /\ InitProgram

NextMatches ==
    \/ GetBuildingMatches(MatchIds)
    \/ LoadBkafiResults

SpecMatches == InitMatches /\ [][NextMatches]_vars

-----------------------------------------------------------------------------
(* Requests with and without the file path: the five endpoints that        *)
(* require one, over warm and cold caches, with the worker running the     *)
(* jobs they submit.                                                       *)

\* the bodies of a calculate request: null, {}, an empty path, a path
Bodies ==
    {None, Some(<<>>)} \cup
    {Some(<<[k |-> "file_path", v |-> file_path]>>) : file_path \in Files \cup {""}}

MetricsFiles ==
    {NoMetrics, InvalidMetrics, Metrics(<<>>),
     Metrics(<<[k |-> "XGBClassifier", v |-> <<>>]>>),
     Metrics(<<[k |-> "XGBClassifier",
                v |-> <<[k |-> "a.json",
                         v |-> [candidates_in_file |-> 2,
                                threshold_true_positives |-> 1]]>>]>>)}

InitInvalid ==
    /\ redisUp \in BOOLEAN
    /\ featureSource \in {ParquetTwo, Absent}
    /\ resultsSource \in ResultSources
    /\ InitProgram

NextInvalid ==
    \/ PostCalculateFeatures(Bodies)
    \/ GetFeaturesResult(Files \cup {""})
    \/ GetSingleBuilding({IdRun}, Files \cup {""})
    \/ GetAllBuildingsStatus(Files \cup {""})
    \/ GetClassifierSummary(Files \cup {""}, MetricsFiles)
    \/ WorkerStart
    \/ WorkerRun
    \/ RedisDown
    \/ RedisBack

SpecInvalid == InitInvalid /\ [][NextInvalid]_vars

-----------------------------------------------------------------------------
(* Concurrent first access to one key.  Requests run in threads of the web *)
(* process, which share its local tier, and in a thread of a second        *)
(* process with a local tier of its own; all share the distributed tier    *)
(* and the job queue.  A loader builds its map entry by entry in a dict of *)
(* its own (building_features, flattened_cache), then the request stores   *)
(* the dict in the local tier by one assignment and in the distributed     *)
(* tier by one SET.  conc holds the key raced for, the threads, the second *)
(* process's globals, the number of loader runs started and, for each      *)
(* local tier, the run that wrote each entry of its value (run 0: taken    *)
(* from the distributed tier).                                             *)

\* number of request threads of the web process
MaxThreads == 2

Threads == ({"web"} \X (1..MaxThreads)) \cup {<<"peer", 1>>}

RaceFile == "a.json"

RaceId == IdRun

IdleThread ==
    [pc |-> "idle", run |-> 0, target |-> <<>>, n |-> 0, used |-> None, code |-> 0]

\* the thread's own dict after n entries
BuiltSoFar(thread) == SubSeq(thread.target, 1, thread.n)

\* the globals of the thread's process
ProcState(t) ==
    IF t[1] = "web" THEN Cur
    ELSE [Cur EXCEPT !.redis_client = conc.peer.redis_client,
                     !.features_cache = conc.peer.features_cache,
                     !.bkafi_cache = conc.peer.bkafi_cache,
                     !.bkafi_cache_by_file = conc.peer.bkafi_cache_by_file]

\* the local tier's value for the key, with the runs that wrote its entries
LocalTier(t, st) ==
    [value |-> IF conc.key = BkafiFlatKey THEN st.bkafi_cache
               ELSE st.features_cache[RaceFile],
     by |-> conc.by[t[1]]]

WithLocalTier(st, tier) ==
    IF conc.key = BkafiFlatKey THEN [st EXCEPT !.bkafi_cache = tier.value]
    ELSE [st EXCEPT !.features_cache[RaceFile] = tier.value]

\* every entry of the map written by the run
WrittenBy(map, run) == [i \in DOMAIN map |-> [k |-> map[i].k, v |-> run]]

\* a loader that fills the shared dict of the local tier in place
LocalTierBuiltInPlace(tier, entry, run) ==
    [value |-> Some(DictSet(IF tier.value.has THEN tier.value.val ELSE <<>>,
                            entry.k, entry.v)),
     by |-> DictSet(tier.by, entry.k, run)]

\* the local tier after a loader wrote one entry: the loader writes into a
\* dict of its own, the tier is as it was
LocalTierAfterBuild(tier, entry, run) == tier

\* the step of thread t that leaves its process in state st, the local tier
\* with the writers by, and the thread as given
ThreadStep(t, st, by, thread) ==
    /\ redis' = st.redis
    /\ jobs' = st.jobs
    /\ IF t[1] = "web"
       THEN /\ redis_client' = st.redis_client
            /\ features_cache' = st.features_cache
            /\ bkafi_cache' = st.bkafi_cache
            /\ bkafi_cache_by_file' = st.bkafi_cache_by_file
            /\ conc' = [conc EXCEPT !.threads[t] = thread, !.by.web = by,
                                    !.runs = IF thread.run > @ THEN thread.run ELSE @]
       ELSE /\ UNCHANGED <<redis_client, features_cache, bkafi_cache, bkafi_cache_by_file>>
            /\ conc' = [conc EXCEPT !.threads[t] = thread, !.by.peer = by,
                                    !.runs = IF thread.run > @ THEN thread.run ELSE @,
                                    !.peer = [redis_client |-> st.redis_client,
                                              features_cache |-> st.features_cache,
                                              bkafi_cache |-> st.bkafi_cache,
                                              bkafi_cache_by_file |-> st.bkafi_cache_by_file]]
    /\ UNCHANGED <<redisUp, featureSource, resultsSource, citySource, resp, ops>>

Answered(thread, code, used) ==
    [thread EXCEPT !.pc = "done", !.code = code, !.used = used]

Loading(thread, target) ==
    [thread EXCEPT !.pc = "build", !.run = conc.runs + 1, !.target = target, !.n = 0]

\* get_building_features up to the start of the loader: the cache lookup and
\* the resolver over the cached map
BeginFeatures(t) ==
    LET st == ProcState(t)
        thread == conc.threads[t]
        cached == get_features_cache(st, RaceFile)
        by == conc.by[t[1]]
    IN  IF cached.raised
        THEN ThreadStep(t, cached.st, by, Answered(thread, 500, None))
        ELSE IF cached.ret.has /\ cached.ret.val # <<>>
                /\ FeaturesCascade(cached.ret.val, RaceId).hit
        THEN ThreadStep(t, cached.st, by, Answered(thread, 200, cached.ret))
        ELSE IF featureSource.kind = "absent"
        THEN ThreadStep(t, cached.st, by, Answered(thread, 404, None))
        ELSE \E target \in LoadChoices :
                 ThreadStep(t, cached.st, by, Loading(thread, target))

\* load_bkafi_results up to the start of the loader: both cache lookups,
\* the "already cached" answer, the queued job
BeginBkafi(t) ==
    LET st == ProcState(t)
        thread == conc.threads[t]
        by == conc.by[t[1]]
        dist == cache_get_json(st, BkafiFlatKey)
        cached_bkafi == get_bkafi_cache(st)
        cached_by_file == get_bkafi_by_file_cache(cached_bkafi.st)
        client == get_redis_client(cached_by_file.st)
        queued == Submit(client.st, "load_bkafi_results", "")
    IN  IF cached_bkafi.raised \/ cached_by_file.raised
        THEN ThreadStep(t, cached_by_file.st, by, Answered(thread, 500, None))
        ELSE IF cached_bkafi.ret.has /\ cached_by_file.ret.has
        THEN ThreadStep(t, [cached_by_file.st EXCEPT
                               !.bkafi_cache = cached_bkafi.ret,
                               !.bkafi_cache_by_file = cached_by_file.ret],
                        IF dist.ret.has THEN WrittenBy(cached_bkafi.ret.val, 0) ELSE by,
                        Answered(thread, 200, cached_bkafi.ret))
        ELSE IF client.ret
        THEN ThreadStep(t, queued, by, Answered(thread, 202, None))
        ELSE IF ~resultsSource.has
        THEN ThreadStep(t, client.st, by, Answered(thread, 404, None))
        ELSE ThreadStep(t, client.st, by, Loading(thread, Flatten(resultsSource.val)))

\* a request arrives in an idle thread
Begin ==
    \E t \in Threads :
        /\ conc.threads[t].pc = "idle"
        /\ IF conc.key = BkafiFlatKey THEN BeginBkafi(t) ELSE BeginFeatures(t)

\* the loader writes the next entry of its map
Build ==
    \E t \in Threads :
        LET st == ProcState(t)
            thread == conc.threads[t]
            entry == thread.target[thread.n + 1]
            tier == LocalTierAfterBuild(LocalTier(t, st), entry, thread.run)
        IN  /\ thread.pc = "build"
            /\ thread.n < Len(thread.target)
            /\ ThreadStep(t, WithLocalTier(st, tier), tier.by,
                          [thread EXCEPT !.n = @ + 1])

\* features_cache[file_path] = building_features; bkafi_cache =
\* flattened_cache, with app.bkafi_cache_by_file unless it is set
Assign ==
    \E t \in Threads :
        LET st == ProcState(t)
            thread == conc.threads[t]
            building_features == BuiltSoFar(thread)
            assigned == WithLocalTier(st, [value |-> Some(building_features), by |-> <<>>])
        IN  /\ thread.pc = "build"
            /\ thread.n = Len(thread.target)
            /\ ThreadStep(t,
                   IF conc.key = BkafiFlatKey /\ ~st.bkafi_cache_by_file.has
                   THEN [assigned EXCEPT !.bkafi_cache_by_file = resultsSource]
                   ELSE assigned,
                   WrittenBy(building_features, thread.run),
                   [thread EXCEPT !.pc = "set"])

\* cache_set_json of the map just built (and of the by-file document), then
\* the answer computed from it
Store ==
    \E t \in Threads :
        LET st == ProcState(t)
            thread == conc.threads[t]
            building_features == BuiltSoFar(thread)
            stored == cache_set_json(st, conc.key, building_features)
            storedByFile == IF conc.key = BkafiFlatKey /\ ~stored.raised
                            THEN cache_set_json(stored.st, BkafiByFileKey, resultsSource.val)
                            ELSE stored
        IN  /\ thread.pc = "set"
            /\ ThreadStep(t, [storedByFile.st EXCEPT !.ops = <<>>], conc.by[t[1]],
                          IF storedByFile.raised THEN Answered(thread, 500, None)
                          ELSE Answered(thread, 200, Some(building_features)))

InitConcurrent ==
    /\ redisUp \in BOOLEAN
    /\ \/ featureSource \in {ParquetTwo, JoblibTwo} /\ resultsSource = None
       \/ featureSource = Absent /\ resultsSource = Some(ResultsDoc)
    /\ citySource = None
    /\ redis_client = FALSE
    /\ redis = [key \in RedisKeys |-> None]
    /\ features_cache = [f \in Files |-> None]
    /\ bkafi_cache = None
    /\ bkafi_cache_by_file = None
    /\ jobs = <<>>
    /\ resp = [request |-> NoRequest, op |-> "none", code |-> 0, body |-> [none |-> TRUE]]
    /\ ops = <<>>
    /\ conc = [key |-> IF resultsSource.has THEN BkafiFlatKey ELSE FeaturesKey(RaceFile),
               threads |-> [t \in Threads |-> IdleThread],
               peer |-> [redis_client |-> FALSE,
                         features_cache |-> [f \in Files |-> None],
                         bkafi_cache |-> None,
                         bkafi_cache_by_file |-> None],
               by |-> [web |-> <<>>, peer |-> <<>>],
               runs |-> 0]

NextConcurrent ==
    \/ Begin
    \/ Build
    \/ Assign
    \/ Store
    \/ WorkerStart
    \/ WorkerRun
    \/ Expire

SpecConcurrent == InitConcurrent /\ [][NextConcurrent]_vars

-----------------------------------------------------------------------------
(* Identifier comparison: a CityJSON file with one CityObject and a        *)
(* prediction document with one building, their ids and the requested id   *)
(* drawn from ids with a digit run, with a separator, with both, with      *)
(* neither.                                                                *)

CompareCity(obj_id) ==
    [CityObjects |-> <<CityObject(obj_id, <<Geometry("MultiSurface", <<1, 3>>)>>)>>,
     vertices |-> Vertices]

CompareResults(candidate_id) ==
    <<[k |-> "tile1.json",
       v |-> <<[k |-> candidate_id,
                v |-> [possible_matches |->
                          <<Match("999", Some(9), None, Some(1))>>]]>>]>>

InitCompare ==
    /\ redisUp \in BOOLEAN
    /\ featureSource = Absent
    /\ \E candidate_id \in CompareIds : resultsSource = Some(CompareResults(candidate_id))
    /\ \E obj_id \in CompareIds : citySource = Some(CompareCity(obj_id))
    /\ conc = NoThreads
    /\ redis_client = FALSE
    /\ redis = [key \in RedisKeys |-> None]
    /\ features_cache = [f \in Files |-> None]
    /\ bkafi_cache = None
    /\ bkafi_cache_by_file = None
    /\ jobs = <<>>
    /\ resp = [request |-> NoRequest, op |-> "none", code |-> 0, body |-> [none |-> TRUE]]
    /\ ops = <<>>

NextCompare ==
    \/ GetSingleBuilding(CompareIds, Files)
    \/ GetAllBuildingsStatus(Files)
    \/ LoadBkafiResults
    \/ WorkerStart
    \/ WorkerRun

SpecCompare == InitCompare /\ [][NextCompare]_vars

-----------------------------------------------------------------------------
(* Flattening over many prediction documents: at most MaxFiles files, each *)
(* with the buildings of FlattenIds in any order; the entry of a building  *)
(* tells the file it comes from.  The document is loaded in the request    *)
(* (no client) or by the background task.                                  *)

\* number of files of a prediction document
MaxFiles == 2

FileNames == <<"tile1.json", "tile2.json", "tile3.json">>

FlattenIds == {IdRun, IdBag}

\* the buildings of file f: distinct ids in some order
FileBuildings(f) ==
    {[i \in DOMAIN order |->
         [k |-> order[i],
          v |-> [possible_matches |-> <<Match(FileNames[f], Some(9), None, Some(1))>>]]] :
        order \in UNION {Perms(S) : S \in SUBSET FlattenIds}}

FlattenDocs ==
    UNION {{doc \in [1..n -> [k : {FileNames[f] : f \in 1..n},
                              v : UNION {FileBuildings(f) : f \in 1..n}]] :
               \A f \in 1..n : doc[f].k = FileNames[f] /\ doc[f].v \in FileBuildings(f)} :
           n \in 0..MaxFiles}

InitFlatten ==
    /\ redisUp \in BOOLEAN
    /\ featureSource = Absent
    /\ \E doc \in FlattenDocs : resultsSource = Some(doc)
    /\ InitProgram

NextFlatten ==
    \/ LoadBkafiResults
    \/ GetBuildingBkafi({IdRun})
    \/ WorkerStart
    \/ WorkerRun
    \/ Expire

SpecFlatten == InitFlatten /\ [][NextFlatten]_vars

-----------------------------------------------------------------------------
(* The feature loaders on typed values: a table or a legacy document with  *)
(* one building and one feature whose value is a Python number, a numpy    *)
(* scalar or an array.  pandas hands the rows of a numeric column as Python*)
(* numbers and the rows of a list column as np.ndarray.                    *)

TypedSources ==
    {Parquet(<<Row(IdRun, "height", Value(kind, 1))>>) :
        kind \in {"number", "np_ndarray"}}
    \cup {Joblib(<<[k |-> "height",
                    v |-> [cands |-> <<[k |-> IdRun, v |-> Value(kind, 1)]>>]]>>) :
            kind \in {"number", "np_scalar", "np_ndarray"}}

InitTypes ==
    /\ redisUp \in BOOLEAN
    /\ featureSource \in TypedSources
    /\ resultsSource = None
    /\ InitProgram

NextTypes ==
    \/ CalculateAllFeatures(Files)
    \/ GetBuildingFeatures({IdRun}, Files)
    \/ GetFeaturesResult(Files)
    \/ WorkerStart
    \/ WorkerRun
    \/ Expire

SpecTypes == InitTypes /\ [][NextTypes]_vars

-----------------------------------------------------------------------------
(* The features resolver on ids with an empty variant: an id of zeros only *)
(* (its zero-stripped variant is empty) and an id that ends in the         *)
(* separator (its last segment is empty), against the resolver's maps.     *)

IdTrailingSep == <<"b", "a", "g", "_">>

EmptyVariantIds == {IdZeros, IdTrailingSep, Id77}

NextEmptyVariant == GetBuildingFeatures(EmptyVariantIds, Files)

SpecEmptyVariant == InitResolver /\ [][NextEmptyVariant]_vars

-----------------------------------------------------------------------------
(* Properties.  resp and ops describe the last request: its response and   *)
(* the cache, loader and queue events it caused, in order.                 *)

Logged(event, key) == \E i \in DOMAIN ops : ops[i] = <<event, key>>

LoggedAny(events) == \E i \in DOMAIN ops : ops[i][1] \in events

\* the last request answered "already cached"
AnsweredFromCache == resp.code = 200 /\ resp.body.message = "already cached"

\* C1: with the distributed cache unreachable (no client), a cold
\* per-building features request and a cold pairs or matches request answer
\* without an error status from the artifact they load inside the request,
\* and afterwards the process-local tier (features_cache[file], bkafi_cache)
\* holds the loaded map.
C1_ColdRequestFillsLocalTier ==
    /\ \A f \in Files :
          (/\ resp.op = "features"
           /\ Logged("dist_unreachable", FeaturesKey(f))
           /\ Logged("load", FeaturesKey(f)))
          => resp.code = 200 /\ features_cache[f].has
    /\ (/\ resp.op \in {"pairs", "matches"}
        /\ Logged("dist_unreachable", BkafiFlatKey)
        /\ Logged("load", BkafiFlatKey))
       => resp.code = 200 /\ bkafi_cache.has

\* C2: a failure of the distributed cache is never fatal: a request during
\* which a cache call found the server unreachable, with or without a
\* memoized client, does not end in a server error.
C2_DistributedFailureNeverFatal ==
    LoggedAny({"dist_unreachable", "dist_set_skipped", "dist_error"})
        => resp.code < 500

\* the requests that look a feature map or the prediction map up through
\* get_features_cache / get_bkafi_cache / get_bkafi_by_file_cache
LookupOps == {"features", "pairs", "matches", "bkafi_load"}

\* C3: a lookup of a feature map or of the prediction map reads the local
\* tier first: the distributed tier is read for a key only after the local
\* tier missed for that key.
C3_LocalTierReadFirst ==
    resp.op \in LookupOps =>
        \A i \in DOMAIN ops :
            ops[i][1] \in {"dist_hit", "dist_miss", "dist_error"} =>
                \E j \in 1..(i - 1) : ops[j] = <<"local_miss", ops[i][2]>>

\* C4: a per-building features request that found a map in a cache tier
\* answers from it: it does not run the feature loader and writes neither
\* tier, also when the requested building is not in the cached map.
C4_CachedMapAnswersWithoutReload ==
    (resp.op = "features" /\ LoggedAny({"dist_hit", "local_hit"}))
        => ~LoggedAny({"load", "local_set", "dist_set"})

\* the artifact the last calculate / load request works on is on disk
ArtifactPresent ==
    IF resp.op = "calculate" THEN featureSource.kind # "absent" ELSE resultsSource.has

\* the local tier holds what the last calculate / load request is about
LocalTierPopulated ==
    IF resp.op = "calculate" THEN features_cache[resp.request.file_path].has
    ELSE bkafi_cache.has

\* C5: on a cache miss of POST /api/features/calculate or POST
\* /api/bkafi/load: with the broker reachable exactly one job is submitted,
\* the answer is 202 "queued", nothing is loaded in the request and the
\* local tier is not written; with the broker unreachable the artifact is
\* loaded in the request, the local tier is populated and no job is
\* submitted.
C5_MissDispatch ==
    (/\ resp.op \in {"calculate", "bkafi_load"}
     /\ resp.code # 400
     /\ ~AnsweredFromCache)
    => /\ Head(ops)[1] \in {"dist_miss", "dist_hit"}
          => /\ resp.code = 202
             /\ resp.body.status = "queued"
             /\ Cardinality({i \in DOMAIN ops : ops[i][1] = "submit"}) = 1
             /\ ~LoggedAny({"load", "local_set"})
       /\ Head(ops)[1] \in {"dist_unreachable", "dist_error"}
          => /\ ~LoggedAny({"submit"})
             /\ ArtifactPresent
                => /\ resp.code = 200
                   /\ LoggedAny({"load"})
                   /\ LocalTierPopulated

\* the features jobs for file f that succeeded
SucceededFeatureJobs(f) ==
    {j \in DOMAIN jobs : /\ jobs[j].task = "calculate_features"
                         /\ jobs[j].arg = f
                         /\ jobs[j].status = "SUCCESS"}

\* a job that succeeds leaves its map under the key the handlers read
JobStoresUnderHandlerKey ==
    \A j \in DOMAIN jobs :
        (jobs[j].status # "SUCCESS" /\ jobs'[j].status = "SUCCESS") =>
            IF jobs[j].task = "calculate_features"
            THEN /\ jobs'[j].result.cache_key = FeaturesKey(jobs[j].arg)
                 /\ redis'[FeaturesKey(jobs[j].arg)].has
                 /\ Len(JsonLoads(redis'[FeaturesKey(jobs[j].arg)].val))
                        = jobs'[j].result.building_count
            ELSE /\ jobs'[j].result.cache_key_flat = BkafiFlatKey
                 /\ jobs'[j].result.cache_key_by_file = BkafiByFileKey
                 /\ redis'[BkafiFlatKey].has
                 /\ redis'[BkafiByFileKey].has
                 /\ JsonLoads(redis'[BkafiFlatKey].val)
                        = Flatten(JsonLoads(redis'[BkafiByFileKey].val))

\* a calculate / load request that finds the job's keys reports "already
\* cached", with the building count of the job's result, and submits nothing
CachedAfterJob ==
    /\ (/\ resp.op = "calculate"
        /\ Logged("dist_hit", FeaturesKey(resp.request.file_path)))
       => /\ AnsweredFromCache
          /\ ~LoggedAny({"submit"})
          /\ \A j \in SucceededFeatureJobs(resp.request.file_path) :
                jobs[j].result.building_count = resp.body.building_count
    /\ (/\ resp.op = "bkafi_load"
        /\ Logged("dist_hit", BkafiFlatKey)
        /\ Logged("dist_hit", BkafiByFileKey))
       => AnsweredFromCache /\ ~LoggedAny({"submit"})

\* the job's artifact is on disk
JobArtifactPresent(j) ==
    IF jobs[j].task = "calculate_features" THEN featureSource.kind # "absent"
    ELSE resultsSource.has

\* the worker has run job j to its end, successfully if its artifact exists
Finished(j) ==
    /\ j \in DOMAIN jobs
    /\ jobs[j].status \in {"SUCCESS", "FAILURE"}
    /\ JobArtifactPresent(j) => jobs[j].status = "SUCCESS"

\* while the server keeps coming back, every submitted job is finished
JobsFinish ==
    ([]<>redisUp) => \A j \in 1..MaxJobs : (j \in DOMAIN jobs) ~> Finished(j)

PollPayloadMatchesState ==
    (resp.op = "job" /\ resp.code = 200) =>
        /\ resp.body.error.has <=> resp.body.status = "FAILURE"
        /\ resp.body.result.has <=> resp.body.status = "SUCCESS"
        /\ ~(resp.body.error.has /\ resp.body.result.has)

\* a failed job stays as it is, a job enters the queue only by a request
\* answered 202, and a poll changes neither jobs nor caches
FailedIsTerminal ==
    /\ \A j \in DOMAIN jobs : jobs[j].status = "FAILURE" => jobs'[j] = jobs[j]
    /\ Len(jobs') > Len(jobs)
       => /\ Len(jobs') = Len(jobs) + 1
          /\ resp'.op \in {"calculate", "bkafi_load"}
          /\ resp'.code = 202
          /\ resp'.body.job_id = Len(jobs')
    /\ GetJobStatus
       => UNCHANGED <<jobs, redis, redis_client, features_cache, bkafi_cache,
                      bkafi_cache_by_file>>

\* C7: polling a job returns the error payload exactly when the job has
\* failed and the result payload exactly when it has succeeded, never both
\* and neither for a job that is not finished; a failed job stays failed,
\* polling has no side effect and nothing resubmits a job.
C7_PollReportsTerminalState == []PollPayloadMatchesState /\ [][FailedIsTerminal]_vars

C7_Witness ==
    /\ resp.op = "job"
    /\ resp.code = 200
    /\ resp.body.status = "FAILURE"
    /\ resp.body.error.has
    /\ ~resp.body.result.has

\* the feature map of the table on disk
ArtifactMap == build_features_from_parquet(featureSource.rows)

\* C8: in the features resolver an exact match of the raw requested id
\* wins: when the map has the id as a key, the request answers with that
\* key's features, whatever else the map holds.
C8_RawIdKeyWins ==
    (/\ resp.op = "features"
     /\ featureSource.kind = "parquet"
     /\ resp.request.building_id \in DictKeys(ArtifactMap))
    => /\ resp.code = 200
       /\ resp.body.found
       /\ resp.body.features = DictGet(ArtifactMap, resp.request.building_id)

C8_Witness ==
    /\ resp.op = "features"
    /\ featureSource.kind = "parquet"
    /\ resp.request.building_id = IdBag
    /\ {IdBag, IdRun} \subseteq DictKeys(ArtifactMap)
    /\ resp.body.features = DictGet(ArtifactMap, IdBag)

\* C9: the pairs and matches resolvers prefer an exact match of the raw
\* requested id: when the prediction map has the id as a key, that key's
\* entry answers the request.
C9_RawIdKeyWinsForPairs ==
    (/\ resp.op \in {"pairs", "matches"}
     /\ resp.code = 200
     /\ resultsSource.has
     /\ resp.request.building_id \in DictKeys(Flatten(resultsSource.val)))
    => resp.body.key = Some(resp.request.building_id)

\* C10: when the raw id is not a key and the normalized id is, the features
\* request answers with the features of the normalized id's key (a map keyed
\* "0518100000271783" answers "bag_0518100000271783"), before any zero-padding
\* or substring step.
C10_NormalizedIdKeyAnswers ==
    (/\ resp.op = "features"
     /\ featureSource.kind = "parquet"
     /\ resp.request.building_id \notin DictKeys(ArtifactMap))
    => /\ NumericId(resp.request.building_id) \in DictKeys(ArtifactMap)
          => /\ resp.code = 200
             /\ resp.body.found
             /\ resp.body.features
                    = DictGet(ArtifactMap, NumericId(resp.request.building_id))
       /\ (resp.request.building_id = IdBag /\ IdRun \in DictKeys(ArtifactMap))
          => resp.body.features = DictGet(ArtifactMap, IdRun)

C10_Witness ==
    /\ resp.op = "features"
    /\ featureSource.kind = "parquet"
    /\ resp.request.building_id = IdBag
    /\ DictKeys(ArtifactMap) = {IdNL, IdRun}
    /\ resp.body.features = DictGet(ArtifactMap, IdRun)

\* s has a maximal run of n >= 10 digits starting at position i
IsRunAt(s, i, n) ==
    /\ n >= 10
    /\ i + n - 1 <= Len(s)
    /\ \A k \in i..(i + n - 1) : s[k] \in Digits
    /\ i = 1 \/ s[i - 1] \notin Digits
    /\ i + n - 1 = Len(s) \/ s[i + n] \notin Digits

HasRun(s) == \E i \in 1..Len(s), n \in 1..Len(s) : IsRunAt(s, i, n)

HasSeparator(s) == \E i \in 1..Len(s) : s[i] = "_"

\* C11: the inline normalization of a requested identifier is the first run
\* of at least 10 consecutive digits if there is one; otherwise, if the id
\* contains '_', the substring after its last occurrence; otherwise the id
\* unchanged.
C11_NormalizeIsTheStatedFunction ==
    resp.op = "normalize" =>
        LET id == resp.request.building_id
            r == resp.body.numeric_id
        IN  /\ HasRun(id)
               => \E i \in 1..Len(id), n \in 1..Len(id) :
                     /\ IsRunAt(id, i, n)
                     /\ r = SubSeq(id, i, i + n - 1)
                     /\ \A j \in 1..(i - 1), m \in 1..Len(id) : ~IsRunAt(id, j, m)
            /\ (~HasRun(id) /\ HasSeparator(id))
               => /\ ~HasSeparator(r)
                  /\ EndsWith(id, <<"_">> \o r)
            /\ (~HasRun(id) /\ ~HasSeparator(id)) => r = id

C11_Witness ==
    /\ resp.op = "normalize"
    /\ resp.request.building_id
           = <<"a", "_">> \o Run(9, "1") \o <<"_">> \o Run(10, "2") \o <<"_", "x">>
    /\ resp.body.numeric_id = Run(10, "2")

\* C12: normalization is idempotent, for an id with a run of at least 10
\* digits, with only a separator, or with neither:
\* normalize(normalize(id)) = normalize(id).
C12_NormalizeIdempotent ==
    resp.op = "normalize" => resp.body.again = resp.body.numeric_id

C12_Witness ==
    /\ resp.op = "normalize"
    /\ resp.request.building_id = <<"a", "_", "1", "_", "2", "_", "x">>
    /\ resp.body.numeric_id = <<"x">>
    /\ resp.body.again = <<"x">>

\* the vertex indices a geometry record refers to, whatever its type
IndicesOf(geometry) ==
    IF geometry.type = "Solid"
    THEN UNION {UNION {UNION {Range(ring) : ring \in Range(face)} :
                          face \in Range(shell)} :
                   shell \in Range(geometry.boundaries)}
    ELSE UNION {UNION {Range(ring) : ring \in Range(surface)} :
                   surface \in Range(geometry.boundaries)}

ReferencedIndices(building) ==
    UNION {IndicesOf(building.geometry[g]) : g \in DOMAIN building.geometry}

\* C13: for every document and every building found in it, whatever the
\* types of its geometry records, the extracted document has as many
\* vertices as the building's geometry refers to distinct indices, and every
\* index in the output boundaries is in [0, output vertex count).
C13_ExtractionIsClosed ==
    (resp.op = "single" /\ resp.code = 200) =>
        LET out == resp.body
            source == DictGet(citySource.val.CityObjects, out.CityObjects[1].k)
        IN  /\ Len(out.vertices) = Cardinality(ReferencedIndices(source))
            /\ ReferencedIndices(out.CityObjects[1].v)
                   \subseteq 0..(Len(out.vertices) - 1)

\* C14: single-building geometry requested for an id that matches no
\* CityObject of an existing file answers 404 with an empty-collection-shaped
\* body, never 500, and writes nothing to the cache.
C14_UnknownBuildingIsNotFound ==
    (/\ resp.op = "single"
     /\ resp.request.file_path # ""
     /\ citySource.has
     /\ resp.request.building_id = Id77)
    => /\ resp.code = 404
       /\ "CityObjects" \in DOMAIN resp.body
       /\ resp.body.CityObjects = <<>>
       /\ ~LoggedAny({"dist_set"})

\* the effective predicted label of a candidate pair
EffectiveLabel(match) ==
    IF match.predicted_label.has THEN match.predicted_label.val
    ELSE IF match.confidence.has /\ match.confidence.val > 5 THEN 1 ELSE 0

\* an entry of the prediction map has a pair predicted 1 with the true label
PredictedWith(entry, true_label) ==
    \E i \in DOMAIN entry.v.possible_matches :
        /\ EffectiveLabel(entry.v.possible_matches[i]) = 1
        /\ entry.v.possible_matches[i].true_label = Some(true_label)

\* id is the key of the entry or the run of at least 10 digits in its key
Denotes(id, entry) ==
    \/ entry.k = id
    \/ \E i \in 1..Len(entry.k), n \in 1..Len(entry.k) :
          IsRunAt(entry.k, i, n) /\ id = SubSeq(entry.k, i, i + n - 1)

\* C15: in the all-buildings status, an id that denotes a building with a
\* pair of effective predicted label 1 and true label 1 has match_status
\* true_match, whatever its other pairs and the other keys with the same
\* numeric id; otherwise false_positive comes before no_match, and no_match
\* before none.
C15_StatusPrecedence ==
    (resp.op = "status" /\ resp.code = 200 /\ resultsSource.has) =>
        LET map == Flatten(resultsSource.val)
            buildings == resp.body.buildings
        IN  \A id \in DOMAIN buildings :
                LET denoted == {i \in DOMAIN map : Denotes(id, map[i])}
                IN  buildings[id].has_pairs =>
                        buildings[id].match_status =
                            IF \E i \in denoted : PredictedWith(map[i], 1)
                            THEN "true_match"
                            ELSE IF \E i \in denoted : PredictedWith(map[i], 0)
                            THEN "false_positive"
                            ELSE IF \E i \in denoted :
                                       map[i].v.possible_matches # <<>>
                            THEN "no_match"
                            ELSE "none"

\* C16: GET /api/buildings/status with a file path answers successfully with
\* what it can determine when the feature map, the prediction map or both
\* are unavailable; an unavailable artifact never turns the answer into an
\* error.
C16_StatusDegradesGracefully ==
    (resp.op = "status" /\ resp.request.file_path # "")
        => resp.code = 200 /\ resp.body.success

\* the candidates of an entry with effective predicted label 1
PredictedCandidates(possible_matches) ==
    {i \in DOMAIN possible_matches : EffectiveLabel(possible_matches[i]) = 1}

\* C17: the matches endpoint returns exactly the candidates of the resolved
\* building whose effective predicted label is 1 (the explicit
\* predicted_label, else 1 iff the confidence is strictly above 0.5; a
\* confidence of 0.5 or a missing one gives 0); each match carries the
\* candidate's index_id as building_id and its confidence.
C17_MatchesAreThePredictedCandidates ==
    (resp.op = "matches" /\ resp.code = 200) =>
        LET map == Flatten(resultsSource.val)
            matches == resp.body.matches
        IN  IF ~resp.body.key.has THEN matches = <<>>
            ELSE LET possible_matches ==
                         (CHOOSE entry \in Range(map) :
                              entry.k = resp.body.key.val).v.possible_matches
                     predicted == PredictedCandidates(possible_matches)
                 IN  /\ Len(matches) = Cardinality(predicted)
                     /\ {<<matches[i].building_id, matches[i].confidence>> :
                            i \in DOMAIN matches}
                        = {<<possible_matches[i].index_id,
                             IF possible_matches[i].confidence.has
                             THEN possible_matches[i].confidence.val ELSE 0>> :
                               i \in predicted}

\* a building with a candidate at the threshold without a label (left out)
\* and a candidate without confidence labelled 1 (returned)
C17_Witness ==
    /\ resp.op = "matches" /\ resp.code = 200 /\ resp.body.key = Some(IdRun)
    /\ resultsSource = Some(MatchesDoc(
           <<Match("777", Some(CONFIDENCE_THRESHOLD), None, None),
             Match("888", None, Some(1), Some(1))>>))
    /\ Len(resp.body.matches) = 1
    /\ resp.body.matches[1].building_id = "888"

\* the last request was answered "no such building" with a success code
BuildingAbsentAnsweredOk ==
    /\ resp.code = 200
    /\ \/ resp.op = "features" /\ ~resp.body.found
       \/ resp.op \in {"pairs", "matches"} /\ ~resp.body.key.has

\* C18: every not-found outcome of the per-building features, pairs and
\* matches endpoints (the building or the artifact is absent) is a 404 with
\* the endpoint's empty collection (features {}, pairs [], matches []), never
\* a success and never a bare error.
C18_NotFoundIs404WithEmptyCollection ==
    /\ ~BuildingAbsentAnsweredOk
    /\ (resp.op = "features" /\ resp.code = 404) => resp.body.features = <<>>
    /\ (resp.op = "pairs" /\ resp.code = 404) => resp.body.pairs = <<>>
    /\ (resp.op = "matches" /\ resp.code = 404) => resp.body.matches = <<>>


\* a step of a request without file path to one of the endpoints that
\* require it (a calculate body that is null, {} or has an empty path)
MissingFilePathRequest ==
    \/ PostCalculateFeatures({data \in Bodies : ~data.has \/ FilePathOf(data.val) = ""})
    \/ GetFeaturesResult({""})
    \/ GetSingleBuilding({IdRun}, {""})
    \/ GetAllBuildingsStatus({""})
    \/ GetClassifierSummary({""}, MetricsFiles)

\* C19: a request to features calculate, features result, single-building,
\* all-buildings status or classifier summary that lacks the file path is
\* answered 400 at once and has no effect: no cache tier is read or written,
\* no loader runs, no job is submitted.
C19_MissingFilePathIsRejectedWithoutEffect ==
    [][MissingFilePathRequest
          => /\ resp'.code = 400
             /\ ops' = <<>>
             /\ UNCHANGED <<redis_client, redis, features_cache, bkafi_cache,
                            bkafi_cache_by_file, jobs>>]_vars

\* the maps a complete run of the loader of the raced key produces
CompleteMaps ==
    IF conc.key = BkafiFlatKey THEN {Flatten(resultsSource.val)} ELSE LoadChoices

\* a local tier value is a complete map whose entries one run wrote
CompleteFromOneRun(value, by) ==
    value.has =>
        /\ value.val \in CompleteMaps
        /\ DictKeys(by) = DictKeys(value.val)
        /\ \A i, j \in DOMAIN by : by[i].v = by[j].v

\* C20: under every interleaving of concurrent requests (threads of one
\* process, a second process, the worker) that first access the same key,
\* every value observable in a local tier or in the distributed tier for the
\* key is a complete map produced by one loader run, never a partly built
\* map or a mixture of two runs, and every answered request was computed
\* from one such map.
C20_RacesNeverCorrupt ==
    /\ CompleteFromOneRun(IF conc.key = BkafiFlatKey THEN bkafi_cache
                          ELSE features_cache[RaceFile], conc.by.web)
    /\ CompleteFromOneRun(IF conc.key = BkafiFlatKey THEN conc.peer.bkafi_cache
                          ELSE conc.peer.features_cache[RaceFile], conc.by.peer)
    /\ redis[conc.key].has => JsonLoads(redis[conc.key].val) \in CompleteMaps
    /\ \A t \in Threads :
           conc.threads[t].used.has => conc.threads[t].used.val \in CompleteMaps

\* two threads of the web process both ran the loader for the key, and the
\* second one's map replaced the first one's in the local tier
C20_Witness ==
    /\ \A t \in {"web"} \X (1..2) :
           /\ conc.threads[t].pc = "done"
           /\ conc.threads[t].run > 0
           /\ conc.threads[t].code = 200
    /\ conc.runs >= 2
    /\ conc.by.web # <<>>
    /\ \A i \in DOMAIN conc.by.web : conc.by.web[i].v = 1
    /\ conc.threads[<<"web", 1>>].run = 2

\* the zero-stripped and the 16-digit zero-padded variant of the normalized id
ZeroVariants(building_id) ==
    {LStripZeros(NumericId(building_id)), ZFill(NumericId(building_id), ZFillWidth)}

\* C21: in the features resolver an exact key match on the zero-stripped or
\* the zero-padded variant of the normalized id is tried, for all variants,
\* before any scan for containment: when the raw and the normalized id are
\* not keys and some key equals such a variant, the answer holds the
\* features of such a key even if another key contains, or is contained in,
\* the normalized id.
C21_ExactVariantBeforeScan ==
    (/\ resp.op = "features"
     /\ featureSource.kind = "parquet"
     /\ resp.request.building_id \notin DictKeys(ArtifactMap)
     /\ NumericId(resp.request.building_id) \notin DictKeys(ArtifactMap)
     /\ ZeroVariants(resp.request.building_id) \cap DictKeys(ArtifactMap) # {})
    => /\ resp.code = 200
       /\ resp.body.found
       /\ \E key \in ZeroVariants(resp.request.building_id) \cap DictKeys(ArtifactMap) :
              resp.body.features = DictGet(ArtifactMap, key)

\* the last request read the prediction map from a cache tier
SawPredictionMap ==
    Logged("dist_hit", BkafiFlatKey) \/ Logged("local_hit", BkafiFlatKey)

\* C22: identifiers are compared after the same normalization of both
\* sides (digit run, else after the last separator, else unchanged): the
\* geometry lookup finds the CityObject exactly when its id and the requested
\* id normalize to the same string, and the status view lists every
\* prediction-map key under its normalized id.
C22_BothSidesNormalizedAlike ==
    /\ (resp.op = "single" /\ resp.code \in {200, 404} /\ citySource.has)
           => (resp.code = 200 <=>
                  \E obj_id \in DictKeys(citySource.val.CityObjects) :
                      NumericId(obj_id) = NumericId(resp.request.building_id))
    /\ (resp.op = "status" /\ resp.code = 200 /\ SawPredictionMap /\ resultsSource.has)
           => \A candidate_id \in DictKeys(Flatten(resultsSource.val)) :
                  /\ NumericId(candidate_id) \in DOMAIN resp.body.buildings
                  /\ resp.body.buildings[NumericId(candidate_id)].has_pairs

\* the indices the Solid and MultiSurface records of a building refer to
SurfaceIndices(building) ==
    UNION {IndicesOf(building.geometry[g]) :
              g \in {h \in DOMAIN building.geometry :
                        building.geometry[h].type \in {"Solid", "MultiSurface"}}}

\* the output index new stands for the input index old: it is the rank of
\* old among the indices referred to, and it names the same coordinate
SameVertex(city_json, out, indices, old, new) ==
    /\ new = Cardinality({i \in indices : i < old})
    /\ old < Len(city_json.vertices)
          => /\ new < Len(out.vertices)
             /\ out.vertices[new + 1] = city_json.vertices[old + 1]

\* every index position of a Solid or MultiSurface record is preserved
GeometryPreserved(city_json, out, indices, geometry, new_geometry) ==
    LET b == geometry.boundaries
        nb == new_geometry.boundaries
    IN  /\ new_geometry.type = geometry.type
        /\ geometry.type = "Solid" =>
               /\ DOMAIN nb = DOMAIN b
               /\ \A sh \in DOMAIN b :
                      /\ DOMAIN nb[sh] = DOMAIN b[sh]
                      /\ \A fa \in DOMAIN b[sh] :
                             /\ DOMAIN nb[sh][fa] = DOMAIN b[sh][fa]
                             /\ \A ri \in DOMAIN b[sh][fa] :
                                    /\ DOMAIN nb[sh][fa][ri] = DOMAIN b[sh][fa][ri]
                                    /\ \A x \in DOMAIN b[sh][fa][ri] :
                                           SameVertex(city_json, out, indices,
                                               b[sh][fa][ri][x], nb[sh][fa][ri][x])
        /\ geometry.type = "MultiSurface" =>
               /\ DOMAIN nb = DOMAIN b
               /\ \A su \in DOMAIN b :
                      /\ DOMAIN nb[su] = DOMAIN b[su]
                      /\ \A ri \in DOMAIN b[su] :
                             /\ DOMAIN nb[su][ri] = DOMAIN b[su][ri]
                             /\ \A x \in DOMAIN b[su][ri] :
                                    SameVertex(city_json, out, indices,
                                        b[su][ri][x], nb[su][ri][x])

\* C23: the extracted document holds exactly one CityObject, the target, and
\* at every index position of its Solid and MultiSurface boundaries the
\* output vertex at the rewritten index is the input vertex at the original
\* index; the new indices are the ranks of the old ones in ascending order.
C23_RenumberingPreservesGeometry ==
    (resp.op = "single" /\ resp.code = 200) =>
        LET out == resp.body
            city_json == citySource.val
            target == FindCityObject(city_json.CityObjects, resp.request.building_id)
            source == city_json.CityObjects[target]
            building == out.CityObjects[1].v
        IN  /\ Len(out.CityObjects) = 1
            /\ target # 0
            /\ out.CityObjects[1].k = source.k
            /\ DOMAIN building.geometry = DOMAIN source.v.geometry
            /\ \A g \in DOMAIN source.v.geometry :
                   GeometryPreserved(city_json, out, SurfaceIndices(source.v),
                                     source.v.geometry[g], building.geometry[g])

\* a building whose MultiSurface uses the vertices 1 and 3, renumbered 0 and 1
C23_Witness ==
    /\ resp.op = "single" /\ resp.code = 200
    /\ resp.body.vertices = <<"v1", "v3">>
    /\ resp.body.CityObjects[1].v.geometry = <<[type |-> "MultiSurface",
                                                boundaries |-> << << <<0, 1>> >> >>]>>

\* the files of the document that hold the building
FilesWith(results_dict, building_id) ==
    {f \in DOMAIN results_dict : building_id \in DictKeys(results_dict[f].v)}

\* flat is the last-write-wins union of the files of the document
LastWriteWins(flat, results_dict) ==
    /\ DictKeys(flat) = UNION {DictKeys(results_dict[f].v) : f \in DOMAIN results_dict}
    /\ Cardinality(DictKeys(flat)) = Len(flat)
    /\ \A i \in DOMAIN flat :
           LET holders == FilesWith(results_dict, flat[i].k)
               last == CHOOSE f \in holders : \A g \in holders : g <= f
           IN  flat[i].v = DictGet(results_dict[last].v, flat[i].k)

\* C24: flattening is last-write-wins without merge: in either tier the flat
\* map's keys are the union of the building ids of all files, a building of
\* several files has exactly the entry of the last file in document order,
\* and the by-file view is the document unchanged, whether the in-process
\* loader or the background task loaded it.
C24_FlatteningIsLastWriteWins ==
    resultsSource.has =>
        /\ bkafi_cache.has => LastWriteWins(bkafi_cache.val, resultsSource.val)
        /\ redis[BkafiFlatKey].has
               => LastWriteWins(JsonLoads(redis[BkafiFlatKey].val), resultsSource.val)
        /\ bkafi_cache_by_file.has => bkafi_cache_by_file.val = resultsSource.val
        /\ redis[BkafiByFileKey].has
               => JsonLoads(redis[BkafiByFileKey].val) = resultsSource.val

\* a document with a building in two files, loaded by the task into the
\* distributed tier and taken from there into the local tier
C24_Witness ==
    /\ resultsSource.has
    /\ Len(resultsSource.val) = 2
    /\ \A f \in 1..2 : IdRun \in DictKeys(resultsSource.val[f].v)
    /\ redis[BkafiFlatKey].has
    /\ bkafi_cache.has
    /\ DictGet(bkafi_cache.val, IdRun).possible_matches[1].index_id = "tile2.json"
    /\ \E j \in DOMAIN jobs : jobs[j].status = "SUCCESS"

\* C25: no feature map held in a cache tier has a numpy scalar or array as a
\* value, and the store of a feature map to the distributed tier made by a
\* request never fails.
TiersHoldNativeValues ==
    \A f \in Files :
        /\ features_cache[f].has => FeatureMapEncodable(features_cache[f].val)
        /\ redis[FeaturesKey(f)].has
            => FeatureMapEncodable(JsonLoads(redis[FeaturesKey(f)].val))

C25_LoadersConvertToNative ==
    /\ TiersHoldNativeValues
    /\ \A f \in Files : ~Logged("dist_error", FeaturesKey(f))

\* C26: a feature map built from a legacy nested document holds
\* map[building_id][feature_name] = value for every entry of every feature's
\* 'cands' and nothing else: it is the map the table loader builds from the
\* rows the converter script writes for the document.
SameDict(a, b) ==
    /\ DictKeys(a) = DictKeys(b)
    /\ \A key \in DictKeys(a) : DictGet(a, key) = DictGet(b, key)

SameFeatureMap(a, b) ==
    /\ DictKeys(a) = DictKeys(b)
    /\ \A bid \in DictKeys(a) : SameDict(DictGet(a, bid), DictGet(b, bid))

ConvertedMap == build_features_from_parquet(to_rows(featureSource.property_dicts))

C26_TranspositionIsComplete ==
    featureSource.kind = "joblib"
    => \A f \in Files :
        /\ features_cache[f].has => SameFeatureMap(features_cache[f].val, ConvertedMap)
        /\ redis[FeaturesKey(f)].has
            => SameFeatureMap(JsonLoads(redis[FeaturesKey(f)].val), ConvertedMap)

\* C27: a request that reads a feature map or the prediction map from the
\* distributed tier leaves that map in the local tier of the process.
C27_DistributedHitPopulatesLocalTier ==
    /\ \A f \in Files :
        Logged("dist_hit", FeaturesKey(f))
        => features_cache[f].has
    /\ Logged("dist_hit", BkafiFlatKey) => bkafi_cache.has

\* C28: the answer of the pairs and of the matches endpoint is the same on a
\* cold and on a warm cache: building_id is the requested id, and the pairs
\* or matches are those of the requested building in the flattened
\* prediction document.
RequestedBuilding == BkafiLookup(Flatten(resultsSource.val), resp.request.building_id)

C28_AnswerIndependentOfCacheState ==
    (resp.op \in {"pairs", "matches"} /\ resp.code = 200 /\ resultsSource.has)
    => /\ resp.body.building_id = resp.request.building_id
       /\ resp.op = "pairs"
           => resp.body.pairs =
                IF RequestedBuilding.has
                THEN PairsOf(RequestedBuilding.val.v.possible_matches,
                             NumericId(resp.request.building_id))
                ELSE <<>>
       /\ resp.op = "matches"
           => resp.body.matches =
                IF RequestedBuilding.has
                THEN MatchesOf(RequestedBuilding.val.v.possible_matches)
                ELSE <<>>

\* the variants of the normalized id that are not empty
NonEmptyVariants(building_id) ==
    {NumericId(building_id), LStripZeros(NumericId(building_id)),
     ZFill(NumericId(building_id), ZFillWidth)} \ {<<>>}

\* key is related to a non-empty form of the requested id by one of the
\* resolver's tests: equality, pattern search, suffix or containment
KeyMatches(key, building_id) ==
    \/ key = building_id
    \/ \E variant \in NonEmptyVariants(building_id) :
        \/ key = variant
        \/ RegexSearch(variant, key) \/ RegexSearch(key, variant)
        \/ EndsWith(variant, key) \/ EndsWith(key, variant)
        \/ Contains(key, variant) \/ Contains(variant, key)

\* C29: the features resolver never matches through an empty variant: a
\* request whose id has an empty variant (only zeros, or ending in the
\* separator), against a non-empty map none of whose keys matches the id,
\* is answered not found.
C29_NoMatchThroughEmptyVariant ==
    (/\ resp.op = "features"
     /\ resp.code = 200
     /\ featureSource.kind = "parquet"
     /\ ArtifactMap # <<>>
     /\ \A key \in DictKeys(ArtifactMap) : ~KeyMatches(key, resp.request.building_id))
    => ~resp.body.found

\* the cache key a job fills
JobKey(job) ==
    IF job.task = "calculate_features" THEN FeaturesKey(job.arg) ELSE BkafiFlatKey

Outstanding(job) == job.status \in {"PENDING", "STARTED"}

\* C30: at most one job per cache key is outstanding: while a job for a key
\* is queued or running and the key is absent from the distributed tier, no
\* step submits another job for the same key.
C30_OneOutstandingJobPerKey ==
    [][\A j \in DOMAIN jobs :
          (Outstanding(jobs[j]) /\ ~redis[JobKey(jobs[j])].has)
          => \A k \in DOMAIN jobs' \ DOMAIN jobs :
                ~(jobs'[k].task = jobs[j].task /\ jobs'[k].arg = jobs[j].arg)]_vars

====
